---- MODULE Spec2Model ----
(***************************************************************************)
(* ScraperService of apt-crawler: the whole-run retry loop (run), the      *)
(* browser session manager (initialize, installBrowserAndRetry, cleanup)   *)
(* and the index-page navigator and two-phase scrape (scrapeApartments).   *)
(*                                                                         *)
(* The service is a single async routine; pc is its position.  Every       *)
(* awaited browser or shell operation is resolved or rejected by the       *)
(* environment, which the actions choose with \E.                          *)
(***************************************************************************)
EXTENDS Integers, Sequences, FiniteSets, TLC

\* ---------------------------------------------------------------- bounds
MaxRuns == 1        \* run() calls made on the one service instance
MaxCloseFaults == 1 \* context.close / browser.close calls that reject
MaxCards == 1       \* floorplan cards on the index page
MaxFound == 2       \* unit tokens one detail page yields
MaxListed == 2      \* floorplan cards on the index page, in DiscoverSpec
MaxContainers == 1  \* containers read on one detail page, in ExtractSpec
MaxText == 3        \* characters of a text handed to a parser, in ParseSpec
MaxJobs == 2        \* invocations of the job, in JobSpec
MaxScraped == 2     \* units one run() returns to the job, in JobSpec
MaxTokens == 2      \* price or date tokens of one container, in PairSpec
MaxSchedules == 2   \* calls of the scheduler's start/scheduleRecurringJobs
MaxSignals == 2     \* signals the process receives, in ShutdownSpec

\* ------------------------------------------------------ program constants
maxRetries == 3
BackoffUnit == 5000
LaunchTimeout == 30000
\* Variant: the retry after a timeout keeps the first timeout.
ExtendedLaunchTimeout_NotRaised == LaunchTimeout

ExtendedLaunchTimeout == 60000
SpawnCooldown == 5000
InstallSettle == 2000

Null == 0

\* Variant: the strictest strategy is tried first.
strategies_Reordered ==
  << [waitUntil |-> "networkidle",      timeout |-> 30000, name |-> "network idle"],
     [waitUntil |-> "domcontentloaded", timeout |-> 45000, name |-> "DOM loaded"],
     [waitUntil |-> "load",             timeout |-> 60000, name |-> "full load"] >>

strategies ==
  << [waitUntil |-> "domcontentloaded", timeout |-> 45000, name |-> "DOM loaded"],
     [waitUntil |-> "load",             timeout |-> 60000, name |-> "full load"],
     [waitUntil |-> "networkidle",      timeout |-> 30000, name |-> "network idle"] >>

InstallCommand == "npx playwright install chromium"

ZombieCommands ==
  << "pkill -f chromium || true", "pkill -f chrome || true",
     "rm -rf /tmp/.org.chromium.* || true", "rm -rf /tmp/playwright* || true" >>

\* ------------------------------------------------------------ error values
\* An error message is modelled by the set of substrings the code tests it
\* for (String.prototype.includes); an error value is the message together
\* with the attempt and the call site that raised it.
Includes(msg, s) == s \in msg

LaunchMessages ==
  { {"Executable doesn't exist"},
    {"browser executable", "timeout"},
    {"Timeout"},
    {"timeout", "spawn"},
    {"Failed to launch"},
    {} }

\* The messages the single retry is made to fail with.
RetryMessages == { {"Timeout"}, {} }

CouldNotInitialize == "Could not initialize browser after installation attempt"
NotInitialized == "Browser not initialized. Call initialize() first."

NoError == [att |-> 0, site |-> "none", idx |-> 0, msg |-> {}]

Err(a, s, i, m) == [att |-> a, site |-> s, idx |-> i, msg |-> m]

\* ------------------------------------------------------------ text
\* Texts are strings; the operations below are the string methods the
\* scraper calls, computed character by character.
UpperLetters == "ABCDEFGHIJKLMNOPQRSTUVWXYZ"
LowerLetters == "abcdefghijklmnopqrstuvwxyz"
Digits == "0123456789"

\* s.substring(a - 1, b): the characters at positions a..b, positions
\* counted from 1; empty when the range is.
substring(s, a, b) ==
  IF a > b \/ a > Len(s) \/ b < 1 THEN ""
  ELSE SubSeq(s, IF a < 1 THEN 1 ELSE a, IF b > Len(s) THEN Len(s) ELSE b)

charAt(s, i) == substring(s, i, i)

\* Position of the one-character text c in alphabet, 0 when absent.
indexOf(alphabet, c) ==
  IF \E i \in 1..Len(alphabet) : charAt(alphabet, i) = c
  THEN CHOOSE i \in 1..Len(alphabet) : charAt(alphabet, i) = c
  ELSE 0

isDigit(c) == indexOf(Digits, c) # 0
isLetter(c) == indexOf(UpperLetters, c) # 0 \/ indexOf(LowerLetters, c) # 0
isSpace(c) == c = " "

RECURSIVE toLowerCase(_)
toLowerCase(s) ==
  IF s = "" THEN ""
  ELSE LET c == charAt(s, 1)
           k == indexOf(UpperLetters, c)
       IN  (IF k = 0 THEN c ELSE charAt(LowerLetters, k)) \o toLowerCase(Tail(s))

startsWithAt(s, i, sub) ==
  i + Len(sub) - 1 <= Len(s) /\ substring(s, i, i + Len(sub) - 1) = sub

\* String.prototype.includes
includesText(s, sub) == \E i \in 1..(Len(s) + 1) : startsWithAt(s, i, sub)

\* String.prototype.replace with a string pattern: the first occurrence only.
replace(s, pattern, by) ==
  IF includesText(s, pattern)
  THEN LET i == CHOOSE k \in 1..(Len(s) + 1) :
                   /\ startsWithAt(s, k, pattern)
                   /\ \A j \in 1..(k - 1) : ~startsWithAt(s, j, pattern)
       IN  substring(s, 1, i - 1) \o by \o substring(s, i + Len(pattern), Len(s))
  ELSE s

RECURSIVE trimStart(_)
trimStart(s) ==
  IF s # "" /\ isSpace(charAt(s, 1)) THEN trimStart(Tail(s)) ELSE s

RECURSIVE trimEnd(_)
trimEnd(s) ==
  IF s # "" /\ isSpace(charAt(s, Len(s)))
  THEN trimEnd(substring(s, 1, Len(s) - 1)) ELSE s

trim(s) == trimEnd(trimStart(s))

\* The end of the longest run of characters of alphabet that starts at
\* position i of s (i - 1 when there is none).
RECURSIVE runEnd(_, _, _)
runEnd(s, i, alphabet) ==
  IF i <= Len(s) /\ indexOf(alphabet, charAt(s, i)) # 0
  THEN runEnd(s, i + 1, alphabet) ELSE i - 1

\* What parseInt yields for a text with no leading digit.
NaN == -1

RECURSIVE digitsValue(_)
digitsValue(s) ==
  IF s = "" THEN 0
  ELSE 10 * digitsValue(substring(s, 1, Len(s) - 1))
         + (indexOf(Digits, charAt(s, Len(s))) - 1)

\* parseInt: the value of the leading digits (leading blanks skipped).
parseInt(s) ==
  LET t == trimStart(s)
      e == runEnd(t, 1, Digits)
  IN  IF e = 0 THEN NaN ELSE digitsValue(substring(t, 1, e))

\* ------------------------------------------------ scraper's pure helpers
PriceMarker == "Starting at $"

\* The leftmost match of /(\d+)\s*bed/i in title: the position of its first
\* digit, 0 when there is no match.
bedMatch(title) ==
  LET lower == toLowerCase(title)
      Matches(p) ==
        /\ isDigit(charAt(title, p))
        /\ startsWithAt(lower, runEnd(title, runEnd(title, p, Digits) + 1, " ") + 1,
                        "bed")
  IN  IF \E p \in 1..Len(title) : Matches(p)
      THEN CHOOSE p \in 1..Len(title) :
             Matches(p) /\ \A q \in 1..(p - 1) : ~Matches(q)
      ELSE 0

\* extractBedroomCount(): keyword tests in this order, then the numeric match.
extractBedroomCount(title) ==
  LET lowerTitle == toLowerCase(title)
      p == bedMatch(title)
  IN  IF includesText(lowerTitle, "studio") THEN 0
      ELSE IF includesText(lowerTitle, "1 bed") \/ includesText(lowerTitle, "one bed")
      THEN 1
      ELSE IF includesText(lowerTitle, "2 bed") \/ includesText(lowerTitle, "two bed")
      THEN 2
      ELSE IF includesText(lowerTitle, "3 bed") \/ includesText(lowerTitle, "three bed")
      THEN 3
      ELSE IF p # 0 THEN parseInt(substring(title, p, runEnd(title, p, Digits)))
      ELSE 0

RECURSIVE removeCommas(_)
removeCommas(s) ==
  IF s = "" THEN ""
  ELSE (IF charAt(s, 1) = "," THEN "" ELSE charAt(s, 1)) \o removeCommas(Tail(s))

\* parseRent(): the first run of digits and commas, commas removed, parsed.
parseRent(rentString) ==
  LET group == Digits \o ","
      Starts(p) == indexOf(group, charAt(rentString, p)) # 0
  IN  IF \E p \in 1..Len(rentString) : Starts(p)
      THEN LET p == CHOOSE q \in 1..Len(rentString) :
                      Starts(q) /\ \A k \in 1..(q - 1) : ~Starts(k)
           IN  parseInt(removeCommas(substring(rentString, p,
                                            runEnd(rentString, p, group))))
      ELSE 0

\* new Date().getFullYear() at the time of the run.
CurrentYear == 2026
\* The year the engine's date parser gives a text that names no year.
LegacyDefaultYear == 2001

NoDate == [year |-> 0, month |-> 0, day |-> 0]

MonthNames == << "jan", "feb", "mar", "apr", "may", "jun",
                 "jul", "aug", "sep", "oct", "nov", "dec" >>

\* The month a word names for the engine's date parser (its first three
\* letters decide), 0 when it names none.
monthOf(word) ==
  LET w == toLowerCase(word)
  IN  IF \E m \in 1..12 : startsWithAt(w, 1, MonthNames[m])
      THEN CHOOSE m \in 1..12 : startsWithAt(w, 1, MonthNames[m])
      ELSE 0

isLeap(y) == (y % 4 = 0 /\ y % 100 # 0) \/ y % 400 = 0

daysInMonth(y, m) ==
  IF m = 2 THEN (IF isLeap(y) THEN 29 ELSE 28)
  ELSE IF m \in {4, 6, 9, 11} THEN 30 ELSE 31

\* The calendar date a Date built from (year, month, day) denotes: months
\* and days outside their range carry over.
RECURSIVE makeDate(_, _, _)
makeDate(y, m, d) ==
  IF m > 12 THEN makeDate(y + 1, m - 12, d)
  ELSE IF m < 1 THEN makeDate(y - 1, m + 12, d)
  ELSE IF d > daysInMonth(y, m) THEN makeDate(y, m + 1, d - daysInMonth(y, m))
  ELSE IF d < 1
  THEN (IF m = 1 THEN makeDate(y - 1, 12, d + 31)
        ELSE makeDate(y, m - 1, d + daysInMonth(y, m - 1)))
  ELSE [year |-> y, month |-> m, day |-> d]

\* new Date(text) for a text of the form "<month word> <day>" followed by
\* ", <year>" or by nothing: NoDate when the engine cannot read it.
parseMonthDay(month, day, year) ==
  IF monthOf(month) # 0 /\ parseInt(day) \in 1..31
  THEN makeDate(year, monthOf(month), parseInt(day))
  ELSE NoDate

\* The match of /available\s+(\w+)\s+(\d+)/i at position p of the text:
\* the word and the number, or two empty texts.
wordChars == UpperLetters \o LowerLetters \o Digits \o "_"

availableMatchAt(s, p) ==
  LET lower == toLowerCase(s)
      w1 == runEnd(s, p + 9, " ") + 1
      w2 == runEnd(s, w1, wordChars)
      d1 == runEnd(s, w2 + 1, " ") + 1
      d2 == runEnd(s, d1, Digits)
  IN  IF /\ startsWithAt(lower, p, "available")
         /\ w1 > p + 9 /\ w2 >= w1 /\ d1 > w2 + 1 /\ d2 >= d1
      THEN << substring(s, w1, w2), substring(s, d1, d2) >>
      ELSE << "", "" >>

\* The leftmost match of /(\d+)\/(\d+)/ : the two numbers, or two empty texts.
slashMatchAt(s, p) ==
  LET a2 == runEnd(s, p, Digits)
      b2 == runEnd(s, a2 + 2, Digits)
  IN  IF a2 >= p /\ charAt(s, a2 + 1) = "/" /\ b2 >= a2 + 2
      THEN << substring(s, p, a2), substring(s, a2 + 2, b2) >>
      ELSE << "", "" >>

firstMatch(s, MatchAt(_, _)) ==
  IF \E p \in 1..Len(s) : MatchAt(s, p) # << "", "" >>
  THEN MatchAt(s, CHOOSE p \in 1..Len(s) :
                    /\ MatchAt(s, p) # << "", "" >>
                    /\ \A q \in 1..(p - 1) : MatchAt(s, q) = << "", "" >>)
  ELSE << "", "" >>

\* new Date(dateString) on a text that is neither of the two handled forms.
directParse(dateString) ==
  LET w2 == runEnd(dateString, 1, UpperLetters \o LowerLetters)
      d1 == runEnd(dateString, w2 + 1, " ") + 1
      d2 == runEnd(dateString, d1, Digits)
  IN  IF w2 >= 1 /\ d1 > w2 + 1 /\ d2 >= d1 /\ d2 = Len(dateString)
      THEN parseMonthDay(substring(dateString, 1, w2), substring(dateString, d1, d2),
                         LegacyDefaultYear)
      ELSE NoDate

\* parseAvailabilityDate(): NoDate stands for null.
parseAvailabilityDate(dateString) ==
  LET am == firstMatch(dateString, availableMatchAt)
      sm == firstMatch(dateString, slashMatchAt)
  IN  IF includesText(toLowerCase(dateString), "available") /\ am # << "", "" >>
      THEN parseMonthDay(am[1], am[2], CurrentYear)
      ELSE IF sm # << "", "" >>
      THEN makeDate(CurrentYear, parseInt(sm[1]), parseInt(sm[2]))
      ELSE directParse(dateString)

\* Date.prototype.toLocaleDateString()
toLocaleDateString(date) ==
  ToString(date.month) \o "/" \o ToString(date.day) \o "/" \o ToString(date.year)

numberText(n) == IF n = NaN THEN "NaN" ELSE ToString(n)

\* The deduplication key, a template string with "-" between its parts.
unitKey(floorplanName, unitNumber, rent, availability) ==
  floorplanName \o "-" \o unitNumber \o "-" \o rent \o "-" \o availability

DefaultAvailability == "Available Now"

\* Sample page content: card titles and unit tokens.
FloorplanNames == {"The Dellwood", "Studio"}
UnitNumbers == {"WEST-641", "EAST-12"}

VARIABLES
  browser, context,            \* ScraperService fields (Null or a handle)
  production,                  \* process.env.NODE_ENV === 'production'
  closeFaults,                 \* environment: close calls rejected so far
  openBrowsers, openContexts,  \* environment: handles launched and not closed
  pc,                          \* position of the run() routine
  runs,                        \* run() calls made so far
  attempt, lastError,          \* locals of run()
  outcome,                     \* what the last run() returned or threw
  launchOptions,               \* local of initialize(): the launch timeout
  caught,                      \* error in flight (pending in a catch/finally)
  strategyIndex, navigationSuccess,
  cardCount, cardIndex, qualifyingFloorplans, fpIndex,
  scrapedUnits, globalSeenUnits, apartments,
  \* history of the calls made on the collaborators
  initCount, failedCount,
  launchLog, execLog, initWaits, newContextCalls,
  backoffLog, cleanupCalls, cleanupRaised,
  gotoLog, cardsEnumerated, cardsRead, collectedFrom, detailVisits,
  \* the job layer: runOnce() and ScrapeWorker.processJob()
  jobKind, ignoreDatabase,     \* the entry point and its flag
  jobPc, jobs,                 \* position of the job; invocations so far
  databaseService, notificationService,  \* locals of runOnce (Null or built)
  scrapedApartments, newUnits, \* locals of the job
  jobError, jobOutcome,        \* the error caught; how the invocation ended
  apartmentsTable,             \* the record store's 'apartments' table
  jobCalls,                    \* history of the calls made on the collaborators
  activeJobs,                  \* the worker's jobs in progress (by number)
  notifiedListed,              \* history: units notified as new and scraped
                               \* by every run() since
  \* a call of one of the parsers: its name, its argument and its result
  parseCall,
  \* ScrapeJobScheduler: its queue's repeatable jobs and the call in progress
  scheduler,
  \* ApartmentCrawlerApp: the process, its signal handlers and the shutdowns
  app

vars == << browser, context, production, closeFaults, openBrowsers, openContexts,
           pc, runs, attempt, lastError, outcome, launchOptions, caught,
           strategyIndex, navigationSuccess, cardCount, cardIndex,
           qualifyingFloorplans, fpIndex, scrapedUnits, globalSeenUnits, apartments,
           initCount, failedCount, launchLog, execLog,
           initWaits, newContextCalls, backoffLog, cleanupCalls,
           cleanupRaised, gotoLog, cardsEnumerated, cardsRead, collectedFrom,
           detailVisits, jobKind, ignoreDatabase, jobPc, jobs, databaseService,
           notificationService, scrapedApartments, newUnits, jobError,
           jobOutcome, apartmentsTable, jobCalls, activeJobs, notifiedListed,
           parseCall, scheduler, app >>

serviceVars == << browser, context >>
envVars == << closeFaults, openBrowsers, openContexts >>
runVars == << attempt, lastError, outcome >>
scrapeVars == << strategyIndex, navigationSuccess, cardCount, cardIndex,
                 qualifyingFloorplans, fpIndex, scrapedUnits, globalSeenUnits,
                 apartments >>
initHist == << launchLog, execLog, initWaits, newContextCalls >>
scrapeHist == << gotoLog, cardsEnumerated, cardsRead, collectedFrom,
                detailVisits >>
runHist == << initCount, failedCount, backoffLog >>
closeHist == << cleanupCalls, cleanupRaised >>
jobVars == << jobKind, ignoreDatabase, jobPc, jobs, databaseService,
              notificationService, scrapedApartments, newUnits, jobError,
              jobOutcome, apartmentsTable, jobCalls, activeJobs,
              notifiedListed >>
processVars == << scheduler, app >>
\* What the scraper never touches.
outerVars == << jobVars, parseCall, processVars >>
\* What the job layer and the parser calls leave alone.
scraperVars == << serviceVars, envVars, production, pc, runs, runVars,
                  launchOptions, caught, scrapeVars, initHist, scrapeHist,
                  runHist, closeHist >>

NoJobOutcome == [kind |-> "none", error |-> ""]
NoCall == [fn |-> "none", arg |-> "", done |-> FALSE, result |-> 0]
\* The scheduler before any call: nothing in progress, an empty queue.
SchedulerIdle ==
  [pc |-> "idle", repeatable |-> {}, repeatableJobs |-> <<>>,
   calls |-> 0, resolved |-> 0, removed |-> 0, last |-> "none"]
\* The value of app.exitCode while the process has not exited.
Running == -1
\* The application as its constructor leaves it: worker and scheduler
\* built, the signal handlers registered, no shutdown() called.
AppIdle ==
  [isShuttingDown |-> FALSE, exitCode |-> Running, received |-> <<>>,
   workerShutdowns |-> <<>>, schedulerShutdowns |-> <<>>,
   workerClosed |-> FALSE, workerRedisOpen |-> TRUE,
   queueClosed |-> FALSE, schedulerRedisOpen |-> TRUE]

\* No job has been started.
JobIdle ==
  /\ jobKind = "runOnce" /\ ignoreDatabase = FALSE
  /\ jobPc = "idle" /\ jobs = 0
  /\ databaseService = Null /\ notificationService = Null
  /\ scrapedApartments = <<>> /\ newUnits = <<>>
  /\ jobError = "" /\ jobOutcome = NoJobOutcome
  /\ jobCalls = <<>>
  /\ activeJobs = {} /\ notifiedListed = {}

\* The scheduler and the application have not been started.
ProcessIdle == scheduler = SchedulerIdle /\ app = AppIdle

\* No job has been started, the store is empty, and no parser called.
OuterIdle ==
  JobIdle /\ apartmentsTable = {} /\ parseCall = NoCall /\ ProcessIdle

NoOutcome == [kind |-> "none", value |-> <<>>, error |-> NoError]

\* The ScraperService as its constructor leaves it, and no run() made.
ServiceIdle ==
  /\ browser = Null /\ context = Null
  /\ production \in BOOLEAN
  /\ closeFaults = 0 /\ openBrowsers = {} /\ openContexts = {}
  /\ pc = "idle" /\ runs = 0
  /\ attempt = 0 /\ lastError = NoError /\ outcome = NoOutcome
  /\ launchOptions = [timeout |-> LaunchTimeout]
  /\ caught = NoError
  /\ strategyIndex = 1 /\ navigationSuccess = FALSE
  /\ cardCount = 0 /\ cardIndex = 0
  /\ qualifyingFloorplans = <<>> /\ fpIndex = 1
  /\ scrapedUnits = <<>> /\ globalSeenUnits = {} /\ apartments = <<>>
  /\ initCount = 0 /\ failedCount = 0
  /\ launchLog = <<>> /\ execLog = <<>> /\ initWaits = <<>>
  /\ newContextCalls = 0
  /\ backoffLog = <<>> /\ cleanupCalls = <<>> /\ cleanupRaised = FALSE
  /\ gotoLog = <<>>
  /\ cardsEnumerated = FALSE /\ cardsRead = <<>> /\ collectedFrom = <<>>
  /\ detailVisits = <<>>

Init == ServiceIdle /\ OuterIdle

\* ------------------------------------------------------------------ cleanup
\* The close calls cleanup() makes on a service holding ctx and br: the
\* context first, then the browser unless the context's close rejected.
closeCalls(ctx, br, ctxOk, brOk) ==
  LET ctxCall == IF ctx # Null
                 THEN << [op |-> "context.close", id |-> ctx, ok |-> ctxOk] >>
                 ELSE <<>>
      brCall  == IF br # Null
                 THEN << [op |-> "browser.close", id |-> br, ok |-> brOk] >>
                 ELSE <<>>
  IN  IF ctx # Null /\ ~ctxOk THEN ctxCall ELSE ctxCall \o brCall

\* Variant: no try/catch around the two closes.
cleanup_NoCatch(ctx, br, ctxOk, brOk) ==
  LET calls == closeCalls(ctx, br, ctxOk, brOk)
  IN  [context |-> IF ctx # Null /\ ~ctxOk THEN ctx ELSE Null,
       browser |-> IF (ctx # Null /\ ~ctxOk) \/ (br # Null /\ ~brOk)
                   THEN br ELSE Null,
       calls   |-> calls,
       raised  |-> \E i \in DOMAIN calls : ~calls[i].ok]

\* cleanup(): close the context, then the browser, inside one try block; a
\* rejected close jumps to the catch, which only logs, so the call never
\* raises.  ctxOk / brOk are the environment's answers to context.close()
\* and browser.close().
cleanup(ctx, br, ctxOk, brOk) ==
  LET calls == closeCalls(ctx, br, ctxOk, brOk)
  IN  IF ctx # Null /\ ~ctxOk
      THEN [context |-> ctx, browser |-> br, calls |-> calls, raised |-> FALSE]
      ELSE IF br # Null /\ ~brOk
           THEN [context |-> Null, browser |-> br, calls |-> calls,
                 raised |-> FALSE]
           ELSE [context |-> Null, browser |-> Null, calls |-> calls,
                 raised |-> FALSE]

Rejected(calls) == Cardinality({ i \in DOMAIN calls : ~calls[i].ok })

ClosedIds(calls, op) ==
  { calls[i].id : i \in { j \in DOMAIN calls : calls[j].op = op /\ calls[j].ok } }

\* The effect of one cleanup() call on the service and on the environment
\* (closing a browser also ends the context opened on it).
DoCleanup(ctxOk, brOk) ==
  LET r == cleanup(context, browser, ctxOk, brOk)
  IN  /\ closeFaults + Rejected(r.calls) <= MaxCloseFaults
      /\ closeFaults' = closeFaults + Rejected(r.calls)
      /\ context' = r.context
      /\ browser' = r.browser
      /\ cleanupCalls' = r.calls
      /\ cleanupRaised' = r.raised
      /\ openBrowsers' = openBrowsers \ ClosedIds(r.calls, "browser.close")
      /\ openContexts' = (openContexts \ ClosedIds(r.calls, "context.close"))
                            \ ClosedIds(r.calls, "browser.close")

\* The call histories describe one initialize() call and one
\* scrapeApartments() call; they are dropped when the caller moves on.
ClearInitHistory ==
  /\ launchLog' = <<>> /\ execLog' = <<>> /\ initWaits' = <<>>
  /\ newContextCalls' = 0

ClearScrapeHistory ==
  /\ gotoLog' = <<>> /\ cardsEnumerated' = FALSE /\ detailVisits' = <<>>
  /\ cardsRead' = <<>> /\ collectedFrom' = <<>>

\* Variant: the scraped-unit list and the seen-set outlive the call.
StaleScrapeLocals ==
  /\ navigationSuccess' = FALSE
  /\ strategyIndex' = 1
  /\ cardCount' = 0 /\ cardIndex' = 0
  /\ qualifyingFloorplans' = <<>> /\ fpIndex' = 1
  /\ UNCHANGED << scrapedUnits, globalSeenUnits >>

\* The locals of scrapeApartments() as its initialisers create them.
FreshScrapeLocals ==
  /\ scrapedUnits' = <<>>
  /\ globalSeenUnits' = {}
  /\ navigationSuccess' = FALSE
  /\ strategyIndex' = 1
  /\ cardCount' = 0 /\ cardIndex' = 0
  /\ qualifyingFloorplans' = <<>> /\ fpIndex' = 1

\* The same locals when the call ends.
EndScrapeLocals == FreshScrapeLocals

\* The record of the cards read and the pages visited ends with the call.
EndScrapeHistory ==
  /\ cardsRead' = <<>> /\ collectedFrom' = <<>> /\ detailVisits' = <<>>
  /\ UNCHANGED << gotoLog, cardsEnumerated >>

\* ---------------------------------------------------------------- run()
StartRun ==
  /\ pc = "idle"
  /\ runs < MaxRuns
  /\ runs' = runs + 1
  /\ attempt' = 1
  /\ lastError' = NoError
  /\ outcome' = NoOutcome
  /\ initCount' = 0 /\ failedCount' = 0
  /\ backoffLog' = <<>> /\ cleanupCalls' = <<>> /\ cleanupRaised' = FALSE
  /\ ClearInitHistory /\ ClearScrapeHistory
  /\ apartments' = <<>>
  /\ pc' = "initialize"
  /\ UNCHANGED << outerVars,
                  serviceVars, envVars, production, launchOptions, caught,
                  strategyIndex, navigationSuccess, cardCount, cardIndex,
                  qualifyingFloorplans, fpIndex, scrapedUnits,
                  globalSeenUnits >>

\* ----------------------------------------------------------- initialize()
\* initialize() begins with cleanup() of whatever the service still holds.
InitializeCleanup ==
  /\ pc = "initialize"
  /\ initCount' = initCount + 1
  /\ \E ctxOk, brOk \in BOOLEAN : DoCleanup(ctxOk, brOk)
  /\ ClearInitHistory
  /\ pc' = "zombie"
  /\ UNCHANGED << outerVars,
                  production, runs, runVars, launchOptions, caught, scrapeVars,
                  failedCount, backoffLog, scrapeHist >>

\* Variant: each command has a try block of its own.
ZombieExec_EachGuarded(k) ==
  [ i \in 1..Len(ZombieCommands) |-> [cmd |-> ZombieCommands[i], ok |-> i # k] ]

\* The commands executed when the k-th of them throws (k = 0: none throws):
\* the try block is left at the first throw and the error is swallowed.
ZombieExec(k) ==
  [ i \in 1..(IF k = 0 THEN Len(ZombieCommands) ELSE k) |->
      [cmd |-> ZombieCommands[i], ok |-> i # k] ]

ZombieCleanup ==
  /\ pc = "zombie"
  /\ IF production
     THEN \E k \in 0..Len(ZombieCommands) : execLog' = execLog \o ZombieExec(k)
     ELSE execLog' = execLog
  /\ launchOptions' = [timeout |-> LaunchTimeout]
  /\ cleanupCalls' = <<>> /\ cleanupRaised' = FALSE
  /\ pc' = "launch"
  /\ UNCHANGED << outerVars,
                  serviceVars, envVars, production, runs, runVars, caught,
                  scrapeVars, launchLog, initWaits, newContextCalls, runHist,
                  scrapeHist >>

\* Variant: the timeout test comes before the executable test.
Classify_TimeoutFirst(msg) ==
  IF Includes(msg, "timeout") \/ Includes(msg, "Timeout")
  THEN "timeout"
  ELSE IF Includes(msg, "Executable doesn't exist") \/ Includes(msg, "browser executable")
  THEN "executable"
  ELSE IF Includes(msg, "Failed to launch") \/ Includes(msg, "spawn")
  THEN "spawn"
  ELSE "other"

\* Variant: an unrecognised launch error is retried like a spawn failure.
Classify_RetryUnknown(msg) ==
  IF Includes(msg, "Executable doesn't exist") \/ Includes(msg, "browser executable")
  THEN "executable"
  ELSE IF Includes(msg, "timeout") \/ Includes(msg, "Timeout")
  THEN "timeout"
  ELSE "spawn"

\* The class the if / else-if chain of initialize() gives a launch error.
Classify(msg) ==
  IF Includes(msg, "Executable doesn't exist") \/ Includes(msg, "browser executable")
  THEN "executable"
  ELSE IF Includes(msg, "timeout") \/ Includes(msg, "Timeout")
  THEN "timeout"
  ELSE IF Includes(msg, "Failed to launch") \/ Includes(msg, "spawn")
  THEN "spawn"
  ELSE "other"

\* A handle no open or held object has (handles are opaque identities).
NewHandle ==
  CHOOSE h \in 1..(Cardinality(openBrowsers \cup openContexts) + 1) :
    h \notin openBrowsers \cup openContexts \cup {browser, context}

\* chromium.launch resolved: the environment hands out a new browser.
LaunchResolved ==
  /\ browser' = NewHandle
  /\ openBrowsers' = openBrowsers \cup {NewHandle}
  /\ UNCHANGED << context, openContexts, closeFaults >>

LaunchCall(ok, msg) == [timeout |-> launchOptions.timeout, ok |-> ok, msg |-> msg]

\* The first chromium.launch and the catch block that classifies its error.
\* (The record of the stale-process commands ends where the launch begins.)
Launch ==
  /\ pc = "launch"
  /\ execLog' = <<>>
  /\ \/ /\ launchLog' = Append(launchLog, LaunchCall(TRUE, {}))
        /\ LaunchResolved
        /\ pc' = "newContext"
        /\ UNCHANGED << launchOptions, caught, initWaits >>
     \/ \E msg \in LaunchMessages :
          /\ launchLog' = Append(launchLog, LaunchCall(FALSE, msg))
          /\ UNCHANGED << serviceVars, envVars >>
          /\ CASE Classify(msg) = "executable" ->
                    /\ pc' = "install"
                    /\ UNCHANGED << launchOptions, caught, initWaits >>
               [] Classify(msg) = "timeout" ->
                    /\ launchOptions' = [timeout |-> ExtendedLaunchTimeout]
                    /\ pc' = "relaunch"
                    /\ UNCHANGED << caught, initWaits >>
               [] Classify(msg) = "spawn" ->
                    /\ initWaits' = Append(initWaits, SpawnCooldown)
                    /\ pc' = "relaunch"
                    /\ UNCHANGED << launchOptions, caught >>
               [] OTHER ->
                    /\ caught' = Err(attempt, "launch", 1, msg)
                    /\ pc' = "catch"
                    /\ UNCHANGED << launchOptions, initWaits >>
  /\ UNCHANGED << outerVars,
                  production, runs, runVars, scrapeVars, newContextCalls,
                  runHist, closeHist, scrapeHist >>

\* installBrowserAndRetry(): install, settle, launch once more; whatever
\* fails inside is replaced by the fixed error.
InstallBrowserAndRetry ==
  /\ pc = "install"
  /\ \/ \* execSync throws
        /\ execLog' = Append(execLog, [cmd |-> InstallCommand, ok |-> FALSE])
        /\ caught' = Err(attempt, "install", 0, {CouldNotInitialize})
        /\ pc' = "catch"
        /\ UNCHANGED << serviceVars, envVars, launchLog, initWaits >>
     \/ \* installed, second launch resolves
        /\ execLog' = Append(execLog, [cmd |-> InstallCommand, ok |-> TRUE])
        /\ initWaits' = Append(initWaits, InstallSettle)
        /\ launchLog' = Append(launchLog, LaunchCall(TRUE, {}))
        /\ LaunchResolved
        /\ pc' = "newContext"
        /\ UNCHANGED caught
     \/ \* installed, second launch rejects
        /\ execLog' = Append(execLog, [cmd |-> InstallCommand, ok |-> TRUE])
        /\ initWaits' = Append(initWaits, InstallSettle)
        /\ \E msg \in RetryMessages :
             launchLog' = Append(launchLog, LaunchCall(FALSE, msg))
        /\ caught' = Err(attempt, "install", 0, {CouldNotInitialize})
        /\ pc' = "catch"
        /\ UNCHANGED << serviceVars, envVars >>
  /\ UNCHANGED << outerVars,
                  production, runs, runVars, launchOptions, scrapeVars,
                  newContextCalls, runHist, closeHist, scrapeHist >>

\* The single retry of the timeout and spawn branches; its failure is not
\* caught inside initialize().
RetryLaunch ==
  /\ pc = "relaunch"
  /\ \/ /\ launchLog' = Append(launchLog, LaunchCall(TRUE, {}))
        /\ LaunchResolved
        /\ pc' = "newContext"
        /\ UNCHANGED caught
     \/ \E msg \in RetryMessages :
          /\ launchLog' = Append(launchLog, LaunchCall(FALSE, msg))
          /\ caught' = Err(attempt, "launch", 2, msg)
          /\ pc' = "catch"
          /\ UNCHANGED << serviceVars, envVars >>
  /\ UNCHANGED << outerVars,
                  production, runs, runVars, launchOptions, scrapeVars,
                  execLog, initWaits, newContextCalls, runHist, closeHist,
                  scrapeHist >>

NewContext ==
  /\ pc = "newContext"
  /\ IF browser = Null
     THEN /\ caught' = Err(attempt, "initialize", 0, {"Browser initialization failed"})
          /\ pc' = "catch"
          /\ UNCHANGED << serviceVars, envVars, newContextCalls >>
     ELSE /\ newContextCalls' = newContextCalls + 1
          /\ \/ /\ context' = browser
                /\ openContexts' = openContexts \cup {browser}
                /\ pc' = "scrape"
                /\ UNCHANGED << browser, closeFaults, openBrowsers, caught >>
             \/ /\ caught' = Err(attempt, "newContext", 0, {})
                /\ pc' = "catch"
                /\ UNCHANGED << serviceVars, envVars >>
  /\ UNCHANGED << outerVars,
                  production, runs, runVars, launchOptions, scrapeVars,
                  launchLog, execLog, initWaits, initCount, failedCount,
                  backoffLog, closeHist, scrapeHist >>

\* ------------------------------------------------------ scrapeApartments()
\* Entry: the guard on context, context.newPage() (outside the try block,
\* so its rejection skips the finally), and the two run-scoped collections,
\* created anew by every call.
ScrapeStart ==
  /\ pc = "scrape"
  /\ IF context = Null
     THEN /\ caught' = Err(attempt, "scrapeApartments", 0, {NotInitialized})
          /\ pc' = "catch"
          /\ UNCHANGED scrapeVars
     ELSE \/ /\ FreshScrapeLocals
             /\ caught' = NoError
             /\ pc' = "navigate"
             /\ UNCHANGED apartments
          \/ /\ caught' = Err(attempt, "newPage", 0, {})
             /\ pc' = "catch"
             /\ UNCHANGED scrapeVars
  /\ ClearInitHistory /\ ClearScrapeHistory
  /\ UNCHANGED << outerVars,
                  serviceVars, envVars, production, runs, runVars,
                  launchOptions, runHist, closeHist >>

\* One iteration of the strategy loop: page.goto with strategies[strategyIndex].
\* The error of the last strategy is re-thrown; the others are only logged.
GotoCall(strategy, ok) ==
  [waitUntil |-> strategy.waitUntil, timeout |-> strategy.timeout, ok |-> ok]

Navigate ==
  /\ pc = "navigate"
  /\ strategyIndex <= Len(strategies)
  /\ \/ /\ gotoLog' = Append(gotoLog, GotoCall(strategies[strategyIndex], TRUE))
        /\ navigationSuccess' = TRUE
        /\ pc' = "loadCards"
        /\ UNCHANGED << strategyIndex, caught >>
     \/ /\ gotoLog' = Append(gotoLog, GotoCall(strategies[strategyIndex], FALSE))
        /\ IF strategyIndex = Len(strategies)
           THEN /\ caught' = Err(attempt, "page.goto", strategyIndex, {})
                /\ pc' = "finally"
                /\ UNCHANGED << strategyIndex, navigationSuccess >>
           ELSE /\ strategyIndex' = strategyIndex + 1
                /\ pc' = "navigate"
                /\ UNCHANGED << navigationSuccess, caught >>
  /\ UNCHANGED << outerVars,
                  serviceVars, envVars, production, runs, runVars,
                  launchOptions, cardCount, cardIndex, qualifyingFloorplans,
                  fpIndex, scrapedUnits, globalSeenUnits, apartments, initHist,
                  runHist, closeHist, cardsEnumerated, cardsRead,
                  collectedFrom, detailVisits >>

RECURSIVE SeqsUpTo(_, _)
SeqsUpTo(S, n) ==
  IF n = 0 THEN { <<>> }
  ELSE LET shorter == SeqsUpTo(S, n - 1)
       IN  shorter \cup { Append(q, x) : q \in shorter, x \in S }

\* After navigation: the settle waits and scrolls, then floorplanCards.count()
\* (at most max cards).  Any of them may reject, which leaves the try block.
\* With no card both loops are empty.
LoadCardsOn(max) ==
  /\ pc = "loadCards"
  /\ \/ \E n \in 0..max :
          /\ cardCount' = n
          /\ cardsEnumerated' = TRUE
          /\ pc' = IF n = 0 THEN "phase2" ELSE "phase1"
          /\ UNCHANGED caught
     \/ \* a wait or a scroll rejects
        /\ caught' = Err(attempt, "loadCards", 0, {})
        /\ pc' = "finally"
        /\ UNCHANGED << cardCount, cardsEnumerated >>
     \/ \* count() rejects
        /\ caught' = Err(attempt, "loadCards", 0, {})
        /\ cardsEnumerated' = TRUE
        /\ pc' = "finally"
        /\ UNCHANGED cardCount
  /\ UNCHANGED << outerVars,
                  serviceVars, envVars, production, runs, runVars,
                  launchOptions, strategyIndex, navigationSuccess, cardIndex,
                  qualifyingFloorplans, fpIndex, scrapedUnits, globalSeenUnits,
                  apartments, initHist, runHist, closeHist, gotoLog,
                  cardsRead, collectedFrom, detailVisits >>

LoadCards == LoadCardsOn(MaxCards)
LoadCardsListed == LoadCardsOn(MaxListed)

\* What the reads of one listing card give: fails names the read that
\* rejects ("scroll", "title", "text" or "none"); title and text are the
\* texts read, the empty text standing also for null.
Card(fails, title, text) == [fails |-> fails, title |-> title, text |-> text]

\* Variant: the price marker is not looked for.
cardQualifies_NoMarker(card) ==
  /\ card.fails = "none"
  /\ card.title # ""
  /\ extractBedroomCount(card.title) <= 1

\* The body of the phase-1 try block reaches qualifyingFloorplans.push: no
\* read rejects, there is a title, it names at most one bedroom, and the
\* card's text holds the price marker.
cardQualifies(card) ==
  /\ card.fails = "none"
  /\ card.title # ""
  /\ extractBedroomCount(card.title) <= 1
  /\ card.text # "" /\ includesText(card.text, PriceMarker)

\* .replace(/^the\s+/, ''): "the" and the whitespace after it, at the very
\* start of the text only.
stripLeadingThe(s) ==
  IF startsWithAt(s, 1, "the") /\ isSpace(charAt(s, 4))
  THEN substring(s, runEnd(s, 4, " ") + 1, Len(s))
  ELSE s

\* .replace(/\s+/g, '-'): every run of whitespace becomes one hyphen.
RECURSIVE hyphenateSpaces(_)
hyphenateSpaces(s) ==
  IF s = "" THEN ""
  ELSE IF isSpace(charAt(s, 1)) THEN "-" \o hyphenateSpaces(trimStart(s))
  ELSE charAt(s, 1) \o hyphenateSpaces(Tail(s))

\* .replace(/[^a-z0-9-]/g, '')
RECURSIVE keepSlugChars(_)
keepSlugChars(s) ==
  IF s = "" THEN ""
  ELSE LET c == charAt(s, 1)
       IN  (IF indexOf(LowerLetters, c) # 0 \/ isDigit(c) \/ c = "-"
            THEN c ELSE "")
           \o keepSlugChars(Tail(s))

\* The slug built from the title as it was read from the card.
urlSlug(title) ==
  keepSlugChars(hyphenateSpaces(stripLeadingThe(toLowerCase(title))))

fullUrl(title) ==
  "https://flatsatpcm.com/floorplans/the-" \o urlSlug(title) \o "/"

\* The entry pushed for a qualifying card.
candidate(card) ==
  [title |-> trim(card.title), url |-> fullUrl(card.title),
   bedroomCount |-> extractBedroomCount(card.title)]

PricedText(title) == title \o " Starting at $1,850"

\* Cards that read without failure and qualify, one per sample title.
SampleCards == { Card("none", t, PricedText(t)) : t \in FloorplanNames }

\* Cards of every kind: qualifying, a title read with the blank that
\* precedes it in the markup, too many bedrooms (by keyword and by number),
\* no price marker, no title, and a failing read of each kind.
AllCards ==
  SampleCards \cup
  { Card("none", " The Dellwood", PricedText(" The Dellwood")),
    Card("none", "2 Bed Loft", PricedText("2 Bed Loft")),
    Card("none", "4 Bedroom Flat", PricedText("4 Bedroom Flat")),
    Card("none", "Studio", "Studio Call for pricing"),
    Card("none", "2 Bed Loft", "2 Bed Loft Call for pricing"),
    Card("none", "", "Starting at $1,850"),
    Card("scroll", "Studio", PricedText("Studio")),
    Card("title", "Studio", PricedText("Studio")),
    Card("text", "Studio", PricedText("Studio")) }

\* What the body of the phase-1 loop works out from each card, tabulated
\* over the cards the index page is given (@@ makes the table explicit).
CardReadings ==
  [c \in AllCards |-> [qualifies |-> cardQualifies(c), entry |-> candidate(c)]]
  @@ <<>>

readCard(card) == CardReadings[card]

\* Variant: a card whose read rejects ends the loop.
cardLoopNext_StopOnError(card, i, n) ==
  IF card.fails # "none" \/ i + 1 >= n THEN "phase2" ELSE "phase1"

\* Where the phase-1 loop goes after card i of n: every path through the
\* body, the catch included, continues with the next index.
cardLoopNext(card, i, n) == IF i + 1 < n THEN "phase1" ELSE "phase2"

\* Phase 1, one iteration: card cardIndex is examined and, if it qualifies,
\* collected.
Phase1On(Cards) ==
  /\ pc = "phase1"
  /\ cardIndex < cardCount
  /\ \E card \in Cards :
       /\ cardsRead' = Append(cardsRead, card)
       /\ IF readCard(card).qualifies
          THEN /\ qualifyingFloorplans' =
                    Append(qualifyingFloorplans, readCard(card).entry)
               /\ collectedFrom' = Append(collectedFrom, cardIndex)
          ELSE UNCHANGED << qualifyingFloorplans, collectedFrom >>
       /\ pc' = cardLoopNext(card, cardIndex, cardCount)
  /\ cardIndex' = cardIndex + 1
  /\ UNCHANGED << outerVars,
                  serviceVars, envVars, production, runs, runVars,
                  launchOptions, caught, strategyIndex, navigationSuccess,
                  cardCount, fpIndex, scrapedUnits, globalSeenUnits,
                  apartments, initHist, runHist, closeHist, gotoLog,
                  cardsEnumerated, detailVisits >>

Phase1 == Phase1On(SampleCards)
Phase1Any == Phase1On(AllCards)

\* One container of a detail page: the marker characters its text holds and
\* what the unit, price and date patterns match in it, in order.
Container(text, unitMatches, priceMatches, dateMatches) ==
  [text |-> text, unitMatches |-> unitMatches,
   priceMatches |-> priceMatches, dateMatches |-> dateMatches]

\* A detail page as one visit reads it: the containers read, in the order
\* of the selector list; what the whole-page pattern matches in the body
\* (text: the probe texts the body holds); and whether an awaited operation
\* rejects after these containers were read (before the first, when there
\* is none).
Page(containers, body, error) ==
  [containers |-> containers, body |-> body, error |-> error]

NoBody == [text |-> {}, matches |-> <<>>]

ScrapedUnit(unitNumber, rent, availabilityDate, floorplan, tag) ==
  [unitNumber |-> unitNumber, rent |-> rent,
   availabilityDate |-> availabilityDate,
   floorplanName |-> floorplan.title, bedroomCount |-> floorplan.bedroomCount,
   att |-> tag.att, visit |-> tag.visit]

\* priceMatches[j] || priceMatches[0]
pairedRent(c, j) ==
  IF j <= Len(c.priceMatches) THEN c.priceMatches[j] ELSE c.priceMatches[1]

\* Variant: a unit past the end of the date tokens gets the default.
pairedDate_NoSharedDate(c, j) ==
  IF j <= Len(c.dateMatches) THEN c.dateMatches[j] ELSE DefaultAvailability

\* dateMatches?.[j] || dateMatches?.[0] || 'Available Now'
pairedDate(c, j) ==
  IF j <= Len(c.dateMatches) THEN c.dateMatches[j]
  ELSE IF c.dateMatches # <<>> THEN c.dateMatches[1]
  ELSE DefaultAvailability

\* The four texts of a scraped record.
RawFields(unit) ==
  << unit.floorplanName, unit.unitNumber, unit.rent, unit.availabilityDate >>

\* One candidate meets the run-scoped set: a key already in it is skipped,
\* any other is added and its record pushed.  acc holds the units pushed by
\* this call, the set, and (unseenSkips) the candidates skipped although no
\* record with their four texts had been emitted in the run.
offer(acc, key, unit, tag) ==
  IF key \in acc.seen
  THEN IF \/ RawFields(unit) \in tag.emitted
          \/ \E k \in DOMAIN acc.units : RawFields(acc.units[k]) = RawFields(unit)
       THEN acc
       ELSE [acc EXCEPT !.unseenSkips = @ \cup {RawFields(unit)}]
  ELSE [acc EXCEPT !.units = Append(@, unit), !.seen = @ \cup {key}]

\* What one container of the page of floorplanName yields, from unit match
\* j on: for each match the key and the texts that are stored.
RECURSIVE containerCandidates(_, _, _)
containerCandidates(c, j, floorplanName) ==
  IF j > Len(c.unitMatches)
  THEN <<>>
  ELSE LET unitNumber == replace(c.unitMatches[j], "#", "")
           rent == pairedRent(c, j)
           availabilityDate == pairedDate(c, j)
       IN  << [key |-> unitKey(floorplanName, unitNumber, rent,
                               availabilityDate),
               unitNumber |-> trim(unitNumber), rent |-> trim(rent),
               availabilityDate |->
                 trim(replace(availabilityDate, "Available ", ""))] >>
           \o containerCandidates(c, j + 1, floorplanName)

\* The guard of the container loop's body.
containerListsUnits(c) ==
  /\ Includes(c.text, "#") /\ Includes(c.text, "$")
  /\ c.unitMatches # <<>> /\ c.priceMatches # <<>>

\* What the matches of the whole-page pattern yield.
RECURSIVE bodyCandidates(_, _)
bodyCandidates(matches, floorplanName) ==
  IF matches = <<>>
  THEN <<>>
  ELSE LET m == Head(matches)
           unitNumber == replace(m.unit, "#", "")
       IN  << [key |-> unitKey(floorplanName, unitNumber, m.price, m.date),
               unitNumber |-> trim(unitNumber), rent |-> trim(m.price),
               availabilityDate |-> m.date] >>
           \o bodyCandidates(Tail(matches), floorplanName)

SamplePrice == "$1,991"
SampleDate == "Available Sep 28"

\* Containers listing some of the sample units at one price.
SampleContainers ==
  { Container({"#", "$"}, found, << SamplePrice >>, <<>>) :
      found \in SeqsUpTo(UnitNumbers, MaxFound) }

\* Containers of every kind: one unit; the same unit with its price, or its
\* date, written another way; the same unit re-priced; two units sharing one
\* price and no date; a container without the unit marker.
ContainerSamples ==
  { Container({"#", "$"}, << "#WEST-641" >>, << SamplePrice >>, << SampleDate >>),
    Container({"#", "$"}, << "#WEST-641" >>, << "$1991" >>, << SampleDate >>),
    Container({"#", "$"}, << "#WEST-641" >>, << SamplePrice >>, << "9/28" >>),
    Container({"#", "$"}, << "#WEST-641" >>, << "$2,100" >>, << SampleDate >>),
    Container({"#", "$"}, << "#WEST-641", "#EAST-12" >>, << SamplePrice >>, <<>>),
    Container({"$"}, << "WEST-641" >>, << SamplePrice >>, << SampleDate >>) }

\* Bodies: nothing to match; the first sample unit with its price and date;
\* another unit of the same family on a page without the probed unit.
BodySamples ==
  { NoBody,
    [text |-> {"WEST-641"},
     matches |-> << [unit |-> "#WEST-641", price |-> SamplePrice,
                     date |-> "Sep 28"] >>],
    [text |-> {"WEST-437"},
     matches |-> << [unit |-> "WEST-437", price |-> SamplePrice,
                     date |-> "Sep 28"] >>] }

\* The floorplan names phase 1 can hand to phase 2 (and those it drops).
CollectedTitles == { trim(c.title) : c \in AllCards }

\* The candidates of every container and body a page is given, tabulated
\* for each floorplan.
ContainerReadings ==
  [k \in (SampleContainers \cup ContainerSamples) \X CollectedTitles |->
     IF containerListsUnits(k[1])
     THEN containerCandidates(k[1], 1, k[2]) ELSE <<>>]
  @@ <<>>

BodyReadings ==
  [k \in BodySamples \X CollectedTitles |-> bodyCandidates(k[1].matches, k[2])]
  @@ <<>>

readContainer(c, floorplanName) == ContainerReadings[<< c, floorplanName >>]
readBody(b, floorplanName) == BodyReadings[<< b, floorplanName >>]

\* The candidates of one container or of the body meet the run-scoped set,
\* in order.
RECURSIVE scanCandidates(_, _, _, _)
scanCandidates(candidates, floorplan, acc, tag) ==
  IF candidates = <<>>
  THEN acc
  ELSE LET x == Head(candidates)
       IN  scanCandidates(Tail(candidates), floorplan,
             offer(acc, x.key,
                   ScrapedUnit(x.unitNumber, x.rent, x.availabilityDate,
                               floorplan, tag),
                   tag),
             tag)

\* The loops over the selectors and their containers.
RECURSIVE scanContainers(_, _, _, _)
scanContainers(containers, floorplan, acc, tag) ==
  IF containers = <<>>
  THEN acc
  ELSE LET c == Head(containers)
       IN  scanContainers(Tail(containers), floorplan,
             IF containerListsUnits(c)
             THEN scanCandidates(readContainer(c, floorplan.title), floorplan, acc, tag)
             ELSE acc,
             tag)

\* scrapeFloorplanDetails(): the containers are scanned; if no unit was
\* pushed, the body is scanned.  An error ends the visit in the catch, and
\* the units pushed before it are returned.
\* (listed: some container read held unit and price candidates; fallback:
\* the branch under !foundUnits was entered.)
scrapeFloorplanDetails(page, floorplan, seen, tag) ==
  LET scan == scanContainers(page.containers, floorplan,
                             [units |-> <<>>, seen |-> seen, unseenSkips |-> {}],
                             tag)
      body == IF Includes(page.body.text, "WEST-641")
              THEN scanCandidates(readBody(page.body, floorplan.title), floorplan,
                                  scan, tag)
              ELSE scan
      listed == \E i \in DOMAIN page.containers :
                  containerListsUnits(page.containers[i])
  IN  IF page.error \/ scan.units # <<>>
      THEN [units |-> scan.units, seen |-> scan.seen,
            unseenSkips |-> scan.unseenSkips, fallback |-> FALSE,
            listed |-> listed]
      ELSE [units |-> body.units, seen |-> body.seen,
            unseenSkips |-> body.unseenSkips, fallback |-> TRUE,
            listed |-> listed]

\* Variant: the floorplans are visited last to first.
floorplanAt_Reversed(floorplans, i) == floorplans[Len(floorplans) + 1 - i]

\* for (const floorplan of qualifyingFloorplans): the i-th floorplan visited.
floorplanAt(floorplans, i) == floorplans[i]

\* Variant: a failed visit ends the loop.
visitLoopNext_BreakOnError(floorplans, i, error) ==
  IF error THEN Len(floorplans) + 1 ELSE i + 1

\* The phase-2 loop goes on with the next floorplan, whether the visit
\* failed or not.
visitLoopNext(floorplans, i, error) == i + 1

\* Phase 2, one iteration: visit the next qualifying floorplan.
ScrapeFloorplanOn(Pages) ==
  /\ pc = "phase2"
  /\ fpIndex <= Len(qualifyingFloorplans)
  /\ \E page \in Pages :
       LET floorplan == floorplanAt(qualifyingFloorplans, fpIndex)
           r == scrapeFloorplanDetails(page, floorplan, globalSeenUnits,
                  [att |-> attempt, visit |-> Len(detailVisits) + 1,
                   emitted |-> { RawFields(scrapedUnits[k]) :
                                   k \in DOMAIN scrapedUnits }])
       IN  /\ scrapedUnits' = scrapedUnits \o r.units
           /\ globalSeenUnits' = r.seen
           /\ detailVisits' =
                Append(detailVisits,
                       [title |-> floorplan.title, error |-> page.error,
                        body |-> IF r.fallback THEN page.body ELSE NoBody,
                        fallback |-> r.fallback, listed |-> r.listed,
                        unseenSkips |-> r.unseenSkips])
           /\ fpIndex' = visitLoopNext(qualifyingFloorplans, fpIndex, page.error)
  /\ UNCHANGED << outerVars,
                  serviceVars, envVars, production, runs, runVars,
                  launchOptions, caught, strategyIndex, navigationSuccess,
                  cardCount, cardIndex, qualifyingFloorplans, apartments,
                  initHist, runHist, closeHist, gotoLog, cardsEnumerated,
                  cardsRead, collectedFrom, pc >>

\* Pages with one sample container, read without error.
SamplePages == { Page(<< c >>, NoBody, FALSE) : c \in SampleContainers }

ScrapeFloorplan == ScrapeFloorplanOn(SamplePages)

AllPages ==
  { Page(cs, b, e) : cs \in SeqsUpTo(ContainerSamples, MaxContainers),
                     b \in BodySamples, e \in BOOLEAN }

ScrapeFloorplanAny == ScrapeFloorplanOn(AllPages)

\* The texts of a candidate as they are stored in a record.
StoredTexts(floorplanName, x) ==
  [floorplanName |-> floorplanName, unitNumber |-> x.unitNumber,
   rent |-> x.rent, availabilityDate |-> x.availabilityDate]

\* Every candidate a page can yield.
Candidates ==
  LET containers == ContainerReadings
      bodies == BodyReadings
  IN  UNION { { StoredTexts(k[2], containers[k][i]) : i \in DOMAIN containers[k] } :
                k \in DOMAIN containers }
      \cup UNION { { StoredTexts(k[2], bodies[k][i]) : i \in DOMAIN bodies[k] } :
                     k \in DOMAIN bodies }

\* parseRent and parseAvailabilityDate, tabulated over the candidates.
Normalizations ==
  [x \in Candidates |->
     [rent |-> parseRent(x.rent),
      availabilityDate |-> parseAvailabilityDate(x.availabilityDate)]]
  @@ <<>>

\* The normalised record of the i-th scraped unit.
normalize(unit, i) ==
  [unitNumber |-> unit.unitNumber, floorplanName |-> unit.floorplanName,
   bedroomCount |-> unit.bedroomCount,
   rent |-> Normalizations[StoredTexts(unit.floorplanName, unit)].rent,
   availabilityDate |->
     Normalizations[StoredTexts(unit.floorplanName, unit)].availabilityDate,
   att |-> unit.att, visit |-> unit.visit, raw |-> i]

\* Variant: the floorplan name is left out of the final key.
finalKey_NoFloorplan(unit) ==
  unitKey("", unit.unitNumber, numberText(unit.rent),
          IF unit.availabilityDate = NoDate THEN "No Date"
          ELSE toLocaleDateString(unit.availabilityDate))

\* The key of the final pass, built from the normalised values.
finalKey(unit) ==
  unitKey(unit.floorplanName, unit.unitNumber, numberText(unit.rent),
          IF unit.availabilityDate = NoDate THEN "No Date"
          ELSE toLocaleDateString(unit.availabilityDate))

\* The values of a normalised record that go into its key.
KeyValues(unit) ==
  [floorplanName |-> unit.floorplanName, unitNumber |-> unit.unitNumber,
   rent |-> unit.rent, availabilityDate |-> unit.availabilityDate]

\* finalKey, tabulated over the normalised candidates.
NormalCandidates ==
  { [x EXCEPT !.rent = Normalizations[x].rent,
              !.availabilityDate = Normalizations[x].availabilityDate] :
      x \in Candidates }

FinalKeys == [unit \in NormalCandidates |-> finalKey(unit)] @@ <<>>

finalKeyOf(unit) == FinalKeys[KeyValues(unit)]

\* The final pass: a record whose key was already seen is dropped.
RECURSIVE deduplicate(_, _)
deduplicate(processedUnits, seenFinalUnits) ==
  IF processedUnits = <<>> THEN <<>>
  ELSE LET unit == Head(processedUnits)
           key == finalKeyOf(unit)
       IN  IF key \in seenFinalUnits
           THEN deduplicate(Tail(processedUnits), seenFinalUnits)
           ELSE << unit >> \o deduplicate(Tail(processedUnits),
                                          seenFinalUnits \cup {key})

\* Variant: no final pass.
processScrapedUnits_NoFinalPass(units) ==
  [i \in DOMAIN units |-> normalize(units[i], i)]

\* processScrapedUnits(): normalise each record, then the final pass.
processScrapedUnits(units) ==
  deduplicate([i \in DOMAIN units |-> normalize(units[i], i)], {})

\* Phase 2 is over: the return statement evaluates processScrapedUnits and
\* control passes to the finally block.
ProcessScraped ==
  /\ pc = "phase2"
  /\ fpIndex > Len(qualifyingFloorplans)
  /\ apartments' = processScrapedUnits(scrapedUnits)
  /\ pc' = "finally"
  /\ UNCHANGED << outerVars,
                  serviceVars, envVars, production, runs, runVars,
                  launchOptions, caught, strategyIndex, navigationSuccess,
                  cardCount, cardIndex, qualifyingFloorplans, fpIndex,
                  scrapedUnits, globalSeenUnits, initHist, runHist, closeHist,
                  scrapeHist >>

\* finally { await page.close() }: a rejection replaces whatever the try
\* block was completing with; otherwise the pending error is thrown on, or
\* the list is returned to run(), which returns it at once.  The locals of
\* the call end with it.
PageClose ==
  /\ pc = "finally"
  /\ \/ /\ caught = NoError
        /\ outcome' = [kind |-> "returned", value |-> apartments,
                       error |-> NoError]
        /\ pc' = "idle"
        /\ UNCHANGED caught
     \/ /\ caught # NoError
        /\ pc' = "catch"
        /\ UNCHANGED << caught, outcome >>
     \/ /\ caught' = Err(attempt, "page.close", 0, {})
        /\ pc' = "catch"
        /\ UNCHANGED outcome
  /\ EndScrapeLocals /\ EndScrapeHistory
  /\ UNCHANGED << outerVars,
                  serviceVars, envVars, production, runs, attempt, lastError,
                  launchOptions, apartments, initHist, runHist, closeHist >>

\* ------------------------------------------------------- run(), catch block
\* Variant: the delay does not grow with the attempt.
waitTime_Fixed(att) == BackoffUnit

waitTime(att) == att * BackoffUnit

\* Variant: the loop stops one attempt early.
LoopContinues_OffByOne(att) == att < maxRetries

\* The loop condition of run(): for (attempt = 1; attempt <= maxRetries; ...).
LoopContinues(att) == att <= maxRetries

RunCatch ==
  /\ pc = "catch"
  /\ lastError' = caught
  /\ failedCount' = failedCount + 1
  /\ \E ctxOk, brOk \in BOOLEAN : DoCleanup(ctxOk, brOk)
  /\ backoffLog' = IF attempt < maxRetries
                   THEN Append(backoffLog, waitTime(attempt))
                   ELSE backoffLog
  /\ attempt' = attempt + 1
  /\ pc' = IF LoopContinues(attempt + 1) THEN "initialize" ELSE "exhausted"
  /\ caught' = NoError
  /\ apartments' = <<>>
  /\ ClearInitHistory /\ ClearScrapeHistory
  /\ UNCHANGED << outerVars,
                  production, runs, outcome, launchOptions, strategyIndex,
                  navigationSuccess, cardCount, cardIndex,
                  qualifyingFloorplans, fpIndex, scrapedUnits, globalSeenUnits,
                  initCount >>

\* After the loop: one more cleanup(), then the last error is thrown.
RunExhausted ==
  /\ pc = "exhausted"
  /\ \E ctxOk, brOk \in BOOLEAN : DoCleanup(ctxOk, brOk)
  /\ outcome' = [kind |-> "thrown", value |-> <<>>, error |-> lastError]
  /\ pc' = "idle"
  /\ UNCHANGED << outerVars,
                  production, runs, attempt, lastError, launchOptions, caught,
                  scrapeVars, initHist, runHist, scrapeHist >>

Next ==
  \/ StartRun
  \/ InitializeCleanup
  \/ ZombieCleanup
  \/ Launch
  \/ InstallBrowserAndRetry
  \/ RetryLaunch
  \/ NewContext
  \/ ScrapeStart
  \/ Navigate
  \/ LoadCards
  \/ Phase1
  \/ ScrapeFloorplan
  \/ ProcessScraped
  \/ PageClose
  \/ RunCatch
  \/ RunExhausted

Spec == Init /\ [][Next]_vars

\* The event loop runs the routine on whenever an awaited operation settles.
FairSpec == Spec /\ WF_vars(Next)

\* ------------------------------------------- scrapeApartments() in detail
\* The first attempt of the first run has opened its session and page and
\* the first navigation strategy has succeeded.
IndexPageLoaded ==
  /\ browser = 1 /\ context = 1
  /\ production = FALSE
  /\ closeFaults = 0 /\ openBrowsers = {1} /\ openContexts = {1}
  /\ runs = 1
  /\ attempt = 1 /\ lastError = NoError /\ outcome = NoOutcome
  /\ launchOptions = [timeout |-> LaunchTimeout]
  /\ caught = NoError
  /\ strategyIndex = 1 /\ navigationSuccess = TRUE
  /\ scrapedUnits = <<>> /\ globalSeenUnits = {} /\ apartments = <<>>
  /\ fpIndex = 1
  /\ initCount = 1 /\ failedCount = 0
  /\ launchLog = <<>> /\ execLog = <<>> /\ initWaits = <<>>
  /\ newContextCalls = 0
  /\ backoffLog = <<>> /\ cleanupCalls = <<>> /\ cleanupRaised = FALSE
  /\ gotoLog = << GotoCall(strategies[1], TRUE) >>
  /\ detailVisits = <<>>
  /\ OuterIdle

\* Discovery: from the loaded index page on, with cards of every kind.
DiscoverInit ==
  /\ IndexPageLoaded
  /\ pc = "loadCards"
  /\ cardCount = 0 /\ cardIndex = 0 /\ cardsEnumerated = FALSE
  /\ qualifyingFloorplans = <<>>
  /\ cardsRead = <<>> /\ collectedFrom = <<>>

DiscoverNext ==
  \/ LoadCardsListed
  \/ Phase1Any
  \/ ScrapeFloorplan
  \/ ProcessScraped
  \/ PageClose

DiscoverSpec == DiscoverInit /\ [][DiscoverNext]_vars

\* The listings phase 2 is entered with: one floorplan, two floorplans, and
\* two cards of the same title.
CollectedSamples ==
  LET a == Card("none", "The Dellwood", PricedText("The Dellwood"))
      b == Card("none", "Studio", PricedText("Studio"))
  IN  { << a >>, << a, b >>, << a, a >> }

\* Extraction: from the end of phase 1 on, with detail pages of every kind.
ExtractInit ==
  /\ IndexPageLoaded
  /\ pc = "phase2"
  /\ cardsEnumerated = TRUE
  /\ cardsRead \in CollectedSamples
  /\ cardCount = Len(cardsRead) /\ cardIndex = Len(cardsRead)
  /\ qualifyingFloorplans = [i \in DOMAIN cardsRead |-> candidate(cardsRead[i])]
  /\ collectedFrom = [i \in DOMAIN cardsRead |-> i - 1]

ExtractNext ==
  \/ ScrapeFloorplanAny
  \/ ProcessScraped

ExtractSpec == ExtractInit /\ [][ExtractNext]_vars

\* ----------------------------------------------------------- the job layer
Built == 1

ConnectionFailed == "Database connection failed"
MissingSupabaseEnv == "Missing required Supabase environment variables"
MissingNtfyTopic == "Missing required NTFY_TOPIC environment variable"
FetchFailed == "Failed to fetch active apartments"
NotificationFailed == "Notification sending failed"
UpdateFailed == "Failed to update apartments"
RemoveFailed == "Failed to remove unavailable units"
LogFailed == "Failed to log scrape run"
ProgressFailed == "updateProgress rejected"

\* How a fetch() of the notification service ends: the response is OK, the
\* call rejects, or the response is not OK.
Transports == {"ok", "rejects", "notOk"}

\* An apartment as run() returns it, and the row the store keeps of it.
Apartment(unitNumber, floorplanName, rent) ==
  [unitNumber |-> unitNumber, floorplanName |-> floorplanName, rent |-> rent]

ApartmentRecord(apt) ==
  [unit_number |-> apt.unitNumber, floorplan_name |-> apt.floorplanName,
   rent |-> apt.rent]

\* Sample units: one unit at two rents, and another unit.
JobApartments ==
  { Apartment("WEST-641", "The Dellwood", 1991),
    Apartment("WEST-641", "The Dellwood", 2100),
    Apartment("EAST-12", "Studio", 1991) }

\* What run() can return: up to MaxScraped records, no record twice.
ScrapeResults ==
  { r \in SeqsUpTo(JobApartments, MaxScraped) :
      \A i, j \in DOMAIN r : i # j => r[i] # r[j] }

\* The tables the store can hold: unit_number is unique.
StoreSamples ==
  { t \in SUBSET { ApartmentRecord(a) : a \in JobApartments } :
      \A x, y \in t : x.unit_number = y.unit_number => x = y }

\* Variant: a unit is known only if a stored row has its number and rent.
findNewUnits_ByRent(scrapedUnitsArg, table) ==
  LET IsNew(unit) == ApartmentRecord(unit) \notin table
  IN  SelectSeq(scrapedUnitsArg, IsNew)

\* DatabaseService.findNewUnits(): the scraped units whose number no stored
\* row has, in their order.
findNewUnits(scrapedUnitsArg, table) ==
  LET existingUnitNumbers == { x.unit_number : x \in table }
      IsNew(unit) == unit.unitNumber \notin existingUnitNumbers
  IN  SelectSeq(scrapedUnitsArg, IsNew)

\* The table after an upsert on unit_number of the rows of apts, each row
\* conflicting with no other row of the batch.
upsert(table, apts) ==
  { x \in table : \A i \in DOMAIN apts : apts[i].unitNumber # x.unit_number }
    \cup { ApartmentRecord(apts[i]) : i \in DOMAIN apts }

\* An upsert cannot touch one row twice: the store rejects such a batch.
UpsertAccepts(apts) ==
  \A i, j \in DOMAIN apts : apts[i].unitNumber = apts[j].unitNumber => apts[i] = apts[j]

\* DatabaseService.removeUnavailableUnits(): with no number every row goes,
\* otherwise the rows whose number is not listed.
removeUnavailableUnits(table, currentUnitNumbers) ==
  IF currentUnitNumbers = {} THEN {}
  ELSE { x \in table : x.unit_number \in currentUnitNumbers }

\* NotificationService.sendNewApartmentNotification(): nothing is posted for
\* an empty list; a failed post is thrown on as a new error.
sendNewApartmentNotification(apts, transport) ==
  IF apts = <<>>
  THEN [posted |-> FALSE, raised |-> FALSE]
  ELSE [posted |-> TRUE, raised |-> transport # "ok"]

\* Variant: the error notification throws its transport failure on.
sendErrorNotification_Rethrow(error, transport) ==
  [posted |-> TRUE, raised |-> transport # "ok"]

\* NotificationService.sendErrorNotification(): a failed post is logged only.
sendErrorNotification(error, transport) ==
  [posted |-> TRUE, raised |-> FALSE]

\* A call on a collaborator: ok tells whether it resolved (for
\* testConnection, to true); transport is how the post of a notification
\* ended.
JobCall(op, arg, ok) == [op |-> op, arg |-> arg, ok |-> ok, transport |-> "none"]

NotifyCall(op, arg, transport, r) ==
  [op |-> op, arg |-> arg, ok |-> ~r.raised, transport |-> transport]

\* The entry logged for a finished run.
ScrapeLog(status, found, new, errors) ==
  [status |-> status, units_found |-> found, new_units |-> new,
   errors |-> errors]

\* An error leaves the try block of the job.
JobThrow(msg) ==
  /\ jobError' = msg
  /\ jobPc' = "catchLog"

\* job.updateProgress() is awaited by the worker only.
ProgressRejects ==
  /\ jobKind = "processJob"
  /\ JobThrow(ProgressFailed)

\* The invocation ends.
JobEnds(kind, error) ==
  /\ jobOutcome' = [kind |-> kind, error |-> error]
  /\ jobPc' = "idle"

\* Variant: runOnce updates the store whatever the scrape returned.
afterNotify_AlwaysUpdate(kind, ignore, db, scraped) ==
  IF kind = "processJob" THEN "upsert"
  ELSE IF ignore \/ db = Null THEN "done"
  ELSE "upsert"

\* Where the job goes after the notification step: the worker always
\* updates the store; runOnce does so in database mode when something was
\* scraped, writes only the run log when nothing was, and is done at once
\* when the database is ignored.
afterNotify(kind, ignore, db, scraped) ==
  IF kind = "processJob" THEN "upsert"
  ELSE IF ignore \/ db = Null THEN "done"
  ELSE IF Len(scraped) > 0 THEN "upsert"
  ELSE "logRun"

\* The job goes to its next step, or is over.
JobGoes(next) ==
  IF next = "done"
  THEN JobEnds("completed", "") /\ UNCHANGED jobError
  ELSE jobPc' = next /\ UNCHANGED << jobError, jobOutcome >>

\* When the invocation is over, the worker has no job in progress.
JobLeavesWorker ==
  activeJobs' = IF jobPc' = "idle" THEN activeJobs \ {jobs} ELSE activeJobs

\* new Worker(..., { concurrency: 1 }): the jobs the worker processes at
\* one time.
concurrency == 1

\* Variant: the worker takes a job whatever it has in progress.
takesJob_Unbounded(active) == TRUE

\* The worker takes a job from the queue only while it has fewer than
\* concurrency jobs in progress.
takesJob(active) == Cardinality(active) < concurrency

\* Variant: the database service is built whatever the flag says.
buildsDatabaseService_Always(ignore) == TRUE

\* if (!ignoreDatabase): the database service is built and tested.
buildsDatabaseService(ignore) == ~ignore

\* An invocation begins.  runOnce builds its services, each constructor
\* failing when its environment variables are missing; the worker holds the
\* services its constructor built.
JobStart ==
  /\ jobs < MaxJobs
  /\ jobs' = jobs + 1
  /\ scrapedApartments' = <<>> /\ newUnits' = <<>>
  /\ jobCalls' = <<>>
  /\ jobOutcome' = NoJobOutcome
  /\ \/ /\ takesJob(activeJobs)
        /\ jobKind = "runOnce" => jobPc = "idle"
        /\ activeJobs' = activeJobs \cup {jobs + 1}
        /\ jobKind' = "processJob" /\ ignoreDatabase' = FALSE
        /\ databaseService' = Built /\ notificationService' = Built
        /\ \/ jobPc' = "scrape" /\ jobError' = ""
           \/ jobError' = ProgressFailed /\ jobPc' = "catchLog"
     \/ \E ignore \in BOOLEAN, ntfyEnv \in BOOLEAN, dbEnv \in BOOLEAN :
          /\ jobPc = "idle"
          /\ UNCHANGED activeJobs
          /\ jobKind' = "runOnce" /\ ignoreDatabase' = ignore
          /\ IF ~ntfyEnv
             THEN /\ notificationService' = Null /\ databaseService' = Null
                  /\ jobError' = MissingNtfyTopic /\ jobPc' = "catchLog"
             ELSE IF ~buildsDatabaseService(ignore)
             THEN /\ notificationService' = Built /\ databaseService' = Null
                  /\ jobError' = "" /\ jobPc' = "scrape"
             ELSE IF ~dbEnv
             THEN /\ notificationService' = Built /\ databaseService' = Null
                  /\ jobError' = MissingSupabaseEnv /\ jobPc' = "catchLog"
             ELSE /\ notificationService' = Built /\ databaseService' = Built
                  /\ jobError' = "" /\ jobPc' = "connect"
  /\ UNCHANGED << scraperVars, apartmentsTable, notifiedListed, parseCall,
                  processVars >>

\* Variant: the result of the connection test is not looked at.
afterConnectionTest_Unread(dbHealthy) == "scrape"

\* if (!dbHealthy) throw: the scraper is only run on a healthy connection.
afterConnectionTest(dbHealthy) == IF dbHealthy THEN "scrape" ELSE "catchLog"

\* runOnce in database mode: testConnection() never rejects; when it
\* resolves to false the job throws.
TestConnection ==
  /\ jobPc = "connect"
  /\ \E dbHealthy \in BOOLEAN :
       /\ jobCalls' = Append(jobCalls, JobCall("testConnection", <<>>, dbHealthy))
       /\ IF afterConnectionTest(dbHealthy) = "scrape"
          THEN jobPc' = "scrape" /\ UNCHANGED jobError
          ELSE JobThrow(ConnectionFailed)
  /\ UNCHANGED << scraperVars, jobKind, ignoreDatabase, jobs, databaseService,
                  notificationService, scrapedApartments, newUnits, jobOutcome,
                  apartmentsTable, parseCall, activeJobs,
                  notifiedListed, processVars >>

\* await scraperService.run(): it returns a list or throws the error of its
\* last attempt.
RunScraper ==
  /\ jobPc = "scrape"
  /\ \/ \E r \in ScrapeResults :
          /\ scrapedApartments' = r
          /\ jobCalls' = Append(jobCalls, JobCall("run", r, TRUE))
          /\ jobPc' = "findNew"
          /\ notifiedListed' =
               notifiedListed \cap { r[i].unitNumber : i \in DOMAIN r }
          /\ UNCHANGED jobError
     \/ /\ jobCalls' = Append(jobCalls, JobCall("run", <<>>, FALSE))
        /\ JobThrow(CouldNotInitialize)
        /\ notifiedListed' = {}
        /\ UNCHANGED scrapedApartments
  /\ UNCHANGED << scraperVars, jobKind, ignoreDatabase, jobs, databaseService,
                  notificationService, newUnits, jobOutcome, apartmentsTable,
                  parseCall, activeJobs, processVars >>

\* The new units: all scraped units when the database is ignored, else what
\* findNewUnits() returns; its read of the table may fail.
FindNew ==
  /\ jobPc = "findNew"
  /\ \/ /\ ignoreDatabase
        /\ newUnits' = scrapedApartments
        /\ jobPc' = "notify"
        /\ UNCHANGED << jobCalls, jobError >>
     \/ /\ ~ignoreDatabase
        /\ newUnits' = findNewUnits(scrapedApartments, apartmentsTable)
        /\ jobCalls' = Append(jobCalls,
                              JobCall("findNewUnits", scrapedApartments, TRUE))
        /\ jobPc' = "notify"
        /\ UNCHANGED jobError
     \/ /\ ~ignoreDatabase
        /\ jobCalls' = Append(jobCalls,
                              JobCall("findNewUnits", scrapedApartments, FALSE))
        /\ JobThrow(FetchFailed)
        /\ UNCHANGED newUnits
     \/ ProgressRejects /\ UNCHANGED << newUnits, jobCalls >>
  /\ UNCHANGED << scraperVars, jobKind, ignoreDatabase, jobs, databaseService,
                  notificationService, scrapedApartments, jobOutcome,
                  apartmentsTable, parseCall, activeJobs,
                  notifiedListed, processVars >>

\* The new-unit notification, sent when there is a new unit; then the job
\* turns to the store.
Notify ==
  /\ jobPc = "notify"
  /\ \/ /\ Len(newUnits) > 0
        /\ \E transport \in Transports :
             LET r == sendNewApartmentNotification(newUnits, transport)
             IN  /\ jobCalls' =
                      Append(jobCalls,
                             NotifyCall("sendNewApartmentNotification",
                                        newUnits, transport, r))
                 /\ notifiedListed' =
                      IF r.raised \/ ignoreDatabase THEN notifiedListed
                      ELSE notifiedListed \cup
                             { newUnits[i].unitNumber : i \in DOMAIN newUnits }
                 /\ IF r.raised
                    THEN JobThrow(NotificationFailed) /\ UNCHANGED jobOutcome
                    ELSE JobGoes(afterNotify(jobKind, ignoreDatabase,
                                             databaseService, scrapedApartments))
     \/ /\ Len(newUnits) = 0
        /\ JobGoes(afterNotify(jobKind, ignoreDatabase, databaseService,
                               scrapedApartments))
        /\ UNCHANGED << jobCalls, notifiedListed >>
     \/ ProgressRejects /\ UNCHANGED << jobCalls, jobOutcome, notifiedListed >>
  /\ JobLeavesWorker
  /\ UNCHANGED << scraperVars, jobKind, ignoreDatabase, jobs, databaseService,
                  notificationService, scrapedApartments, newUnits,
                  apartmentsTable, parseCall, processVars >>

\* updateApartments(scrapedApartments)
Upsert ==
  /\ jobPc = "upsert"
  /\ \/ /\ UpsertAccepts(scrapedApartments)
        /\ apartmentsTable' = upsert(apartmentsTable, scrapedApartments)
        /\ jobCalls' = Append(jobCalls,
                              JobCall("updateApartments", scrapedApartments, TRUE))
        /\ jobPc' = "remove"
        /\ UNCHANGED jobError
     \/ /\ jobCalls' = Append(jobCalls,
                              JobCall("updateApartments", scrapedApartments, FALSE))
        /\ JobThrow(UpdateFailed)
        /\ UNCHANGED apartmentsTable
     \/ ProgressRejects /\ UNCHANGED << jobCalls, apartmentsTable >>
  /\ UNCHANGED << scraperVars, jobKind, ignoreDatabase, jobs, databaseService,
                  notificationService, scrapedApartments, newUnits, jobOutcome,
                  parseCall, activeJobs,
                  notifiedListed, processVars >>

\* removeUnavailableUnits(currentUnitNumbers)
Remove ==
  /\ jobPc = "remove"
  /\ LET currentUnitNumbers ==
           { scrapedApartments[i].unitNumber : i \in DOMAIN scrapedApartments }
     IN  \/ /\ apartmentsTable' =
                 removeUnavailableUnits(apartmentsTable, currentUnitNumbers)
            /\ jobCalls' = Append(jobCalls,
                 JobCall("removeUnavailableUnits", currentUnitNumbers, TRUE))
            /\ jobPc' = "logRun"
            /\ UNCHANGED jobError
         \/ /\ jobCalls' = Append(jobCalls,
                 JobCall("removeUnavailableUnits", currentUnitNumbers, FALSE))
            /\ JobThrow(RemoveFailed)
            /\ UNCHANGED apartmentsTable
  /\ UNCHANGED << scraperVars, jobKind, ignoreDatabase, jobs, databaseService,
                  notificationService, scrapedApartments, newUnits, jobOutcome,
                  parseCall, activeJobs,
                  notifiedListed, processVars >>

\* logScrapeRun() of the completed run; the job is then over.
LogRun ==
  /\ jobPc = "logRun"
  /\ LET log == ScrapeLog("completed", Len(scrapedApartments), Len(newUnits), "")
     IN  \/ /\ jobCalls' = Append(jobCalls, JobCall("logScrapeRun", log, TRUE))
            /\ \/ JobEnds("completed", "") /\ UNCHANGED jobError
               \/ ProgressRejects /\ UNCHANGED jobOutcome
         \/ /\ jobCalls' = Append(jobCalls, JobCall("logScrapeRun", log, FALSE))
            /\ JobThrow(LogFailed)
            /\ UNCHANGED jobOutcome
         \/ ProgressRejects /\ UNCHANGED << jobCalls, jobOutcome >>
  /\ JobLeavesWorker
  /\ UNCHANGED << scraperVars, notifiedListed, jobKind, ignoreDatabase, jobs, databaseService,
                  notificationService, scrapedApartments, newUnits,
                  apartmentsTable, parseCall, processVars >>

\* The catch block: the failed run is logged if there is a database
\* service; when that call rejects, the inner catch ends the reporting.
CatchLog ==
  /\ jobPc = "catchLog"
  /\ LET log == ScrapeLog("failed", 0, 0, jobError)
     IN  \/ /\ databaseService = Null
            /\ jobPc' = "catchNotify"
            /\ UNCHANGED << jobCalls, jobOutcome >>
         \/ /\ databaseService # Null
            /\ jobCalls' = Append(jobCalls, JobCall("logScrapeRun", log, TRUE))
            /\ jobPc' = "catchNotify"
            /\ UNCHANGED jobOutcome
         \/ /\ databaseService # Null
            /\ jobCalls' = Append(jobCalls, JobCall("logScrapeRun", log, FALSE))
            /\ JobEnds("failed", jobError)
  /\ JobLeavesWorker
  /\ UNCHANGED << scraperVars, notifiedListed, jobKind, ignoreDatabase, jobs, databaseService,
                  notificationService, scrapedApartments, newUnits, jobError,
                  apartmentsTable, parseCall, processVars >>

\* The catch block goes on: the error notification is sent if there is a
\* notification service (an error it raised would end in the inner catch);
\* then the error is thrown on or the process exits.
CatchNotify ==
  /\ jobPc = "catchNotify"
  /\ \/ /\ notificationService = Null
        /\ UNCHANGED jobCalls
     \/ /\ notificationService # Null
        /\ \E transport \in Transports :
             LET r == sendErrorNotification(jobError, transport)
             IN  jobCalls' =
                   Append(jobCalls,
                          NotifyCall("sendErrorNotification", jobError,
                                     transport, r))
  /\ JobEnds("failed", jobError)
  /\ JobLeavesWorker
  /\ UNCHANGED << scraperVars, notifiedListed, jobKind, ignoreDatabase, jobs, databaseService,
                  notificationService, scrapedApartments, newUnits, jobError,
                  apartmentsTable, parseCall, processVars >>

JobInit ==
  /\ ServiceIdle /\ production = FALSE
  /\ JobIdle
  /\ apartmentsTable \in StoreSamples
  /\ parseCall = NoCall /\ ProcessIdle

JobNext ==
  \/ JobStart
  \/ TestConnection
  \/ RunScraper
  \/ FindNew
  \/ Notify
  \/ Upsert
  \/ Remove
  \/ LogRun
  \/ CatchLog
  \/ CatchNotify

JobSpec == JobInit /\ [][JobNext]_vars

\* ------------------------------------------------- the parsers, called alone
\* Every text of at most n characters of the alphabet.
RECURSIVE TextsUpTo(_, _)
TextsUpTo(alphabet, n) ==
  IF n = 0 THEN { "" }
  ELSE LET shorter == TextsUpTo(alphabet, n - 1)
       IN  shorter \cup { t \o charAt(alphabet, i) :
                            t \in shorter, i \in 1..Len(alphabet) }

\* Rent texts: those of the unit tests, and every short text made of the
\* characters the price pattern knows and one it does not.
RentAlphabet == "$,19x"
RentTexts ==
  {"$1,991", "$2,500", "1750", "$995", "Invalid"}
    \cup TextsUpTo(RentAlphabet, MaxText)

ParseInit ==
  /\ ServiceIdle /\ production = FALSE
  /\ JobIdle /\ apartmentsTable = {} /\ ProcessIdle
  /\ \E t \in RentTexts :
       parseCall = [fn |-> "parseRent", arg |-> t, done |-> FALSE, result |-> 0]

\* parseRent(arg) returns.
ParseRentCall ==
  /\ parseCall.fn = "parseRent" /\ ~parseCall.done
  /\ parseCall' = [parseCall EXCEPT !.done = TRUE, !.result = parseRent(parseCall.arg)]
  /\ UNCHANGED << scraperVars, jobVars, processVars >>

ParseNext == ParseRentCall

ParseSpec == ParseInit /\ [][ParseNext]_vars

\* ======================================================================
\* Properties
\* ======================================================================

RunReturned == pc = "idle" /\ outcome.kind = "returned"
RunThrew == pc = "idle" /\ outcome.kind = "thrown"

\* initialize() has returned or thrown, and its call history is still held.
InitializeDone == pc \in {"scrape", "catch"} /\ launchLog # <<>>

FirstLaunchFailed == launchLog # <<>> /\ ~launchLog[1].ok

MsgExecutable(m) == "Executable doesn't exist" \in m \/ "browser executable" \in m
MsgTimeout(m) == ~MsgExecutable(m) /\ ("timeout" \in m \/ "Timeout" \in m)
MsgSpawn(m) ==
  ~MsgExecutable(m) /\ ~MsgTimeout(m) /\ ("Failed to launch" \in m \/ "spawn" \in m)
MsgUnclassified(m) == ~MsgExecutable(m) /\ ~MsgTimeout(m) /\ ~MsgSpawn(m)

Installs == { i \in DOMAIN execLog : execLog[i].cmd = "npx playwright install chromium" }

\* C1: when run() returns, the returning attempt is the first that did not
\* fail (every attempt before it failed and none was started after it), the
\* value is the list scrapeApartments() of that attempt produced, and every
\* unit in it was extracted during that attempt.
C1_ReturnsFirstSuccessfulAttempt ==
  RunReturned =>
    /\ initCount = failedCount + 1
    /\ attempt = initCount
    /\ outcome.value = apartments
    /\ \A i \in DOMAIN outcome.value : outcome.value[i].att = attempt

\* C1 witness: attempts 1 and 2 failed, attempt 3 returned a non-empty list.
C1_Witness ==
  RunReturned /\ initCount = 3 /\ failedCount = 2 /\ outcome.value # <<>>

\* C2: run() enters initialize() at most 3 times; when it throws, all 3
\* attempts were made and failed and the error thrown is the one raised in
\* the third attempt; and every run() that was started ends.
C2_ThreeAttemptsThenLastError ==
  /\ [](initCount <= 3)
  /\ [](RunThrew => /\ initCount = 3
                    /\ failedCount = 3
                    /\ outcome.error # NoError
                    /\ outcome.error.att = 3)
  /\ [](failedCount = 3 => pc \in {"exhausted", "idle"})
  /\ (pc # "idle") ~> (pc = "idle")

\* C2 witness: a run has thrown after three failed attempts.
C2_Witness == RunThrew /\ initCount = 3 /\ outcome.error.att = 3

\* C3 (as claimed): whenever run() has returned or thrown, nothing that its
\* attempts opened is still open and the service holds no handle.
C3_SessionReleasedOnEveryExit ==
  (pc = "idle" /\ outcome.kind # "none") =>
    /\ openBrowsers = {} /\ openContexts = {}
    /\ browser = Null /\ context = Null

C5_SessionClosedBetweenAttempts ==
  /\ (pc \in {"launch", "install", "relaunch"} =>
        openBrowsers = {} /\ openContexts = {})
  /\ (pc = "zombie" /\ attempt > 1 => cleanupCalls = <<>>)
  /\ (RunThrew => cleanupCalls = <<>>)

\* C6: the index-page gotos of one scrapeApartments() call are a prefix of
\* domcontentloaded, load, networkidle, each with its own timeout, and only
\* the last goto made can have succeeded.
C6_StrategiesInOrderOnce ==
  /\ Len(gotoLog) <= 3
  /\ \A i \in DOMAIN gotoLog :
       /\ gotoLog[i].waitUntil = << "domcontentloaded", "load", "networkidle" >>[i]
       /\ (i < Len(gotoLog) => ~gotoLog[i].ok)
  /\ (pc \in {"loadCards", "phase1", "phase2"} =>
        gotoLog # <<>> /\ gotoLog[Len(gotoLog)].ok)

\* C6 witness: A and B failed, C succeeded, and the call went on.
C6_Witness ==
  /\ pc = "loadCards"
  /\ Len(gotoLog) = 3
  /\ ~gotoLog[1].ok /\ ~gotoLog[2].ok /\ gotoLog[3].ok

\* C7 (as claimed): when all three strategies failed, the error with which
\* scrapeApartments() reaches the catch of run() is the one the third goto
\* raised, and the cards were never counted.
C7_LastNavigationErrorSurfaced ==
  (pc = "catch" /\ Len(gotoLog) = 3 /\ ~gotoLog[3].ok) =>
    /\ caught = Err(attempt, "page.goto", 3, {})
    /\ ~cardsEnumerated

\* C8: after an initialize() whose first launch failed with an executable-
\* not-found message, the install command ran exactly once and launch was
\* called at most twice; a failed install means one launch in total, a
\* successful one two; and in either failure initialize() threw the fixed
\* error.
C8_InstallOnceThenRetryOnce ==
  /\ Cardinality(Installs) <= 1
  /\ (InitializeDone /\ FirstLaunchFailed /\ MsgExecutable(launchLog[1].msg)) =>
       /\ Cardinality(Installs) = 1
       /\ \A i \in Installs :
            /\ ~execLog[i].ok =>
                 /\ Len(launchLog) = 1
                 /\ pc = "catch"
                 /\ caught.msg = {"Could not initialize browser after installation attempt"}
            /\ execLog[i].ok =>
                 /\ Len(launchLog) = 2
                 /\ ~launchLog[2].ok =>
                      /\ pc = "catch"
                      /\ caught.msg = {"Could not initialize browser after installation attempt"}
                 /\ launchLog[2].ok => context # Null \/ caught.site = "newContext"

\* C8 witness: installed, and the second launch failed.
C8_Witness ==
  /\ InitializeDone /\ FirstLaunchFailed /\ MsgExecutable(launchLog[1].msg)
  /\ Len(launchLog) = 2 /\ ~launchLog[2].ok
  /\ Cardinality(Installs) = 1

\* C9: after an initialize() whose first launch failed with a timeout
\* message, launch was called exactly twice, with 30000 then 60000 and no
\* wait; with a spawn message, exactly twice with 30000 both times and one
\* 5000 ms wait; a failed retry is what initialize() threw; and no
\* initialize() calls launch more than twice.
C9_TimeoutAndSpawnRetriedOnce ==
  /\ Len(launchLog) <= 2
  /\ (InitializeDone /\ FirstLaunchFailed /\ MsgTimeout(launchLog[1].msg)) =>
       /\ Len(launchLog) = 2
       /\ launchLog[1].timeout = 30000 /\ launchLog[2].timeout = 60000
       /\ initWaits = <<>>
       /\ ~launchLog[2].ok =>
            pc = "catch" /\ caught = Err(attempt, "launch", 2, launchLog[2].msg)
  /\ (InitializeDone /\ FirstLaunchFailed /\ MsgSpawn(launchLog[1].msg)) =>
       /\ Len(launchLog) = 2
       /\ launchLog[1].timeout = 30000 /\ launchLog[2].timeout = 30000
       /\ initWaits = << 5000 >>
       /\ ~launchLog[2].ok =>
            pc = "catch" /\ caught = Err(attempt, "launch", 2, launchLog[2].msg)

\* C9 witness: a timeout, then the retry with the raised timeout failed too.
C9_Witness ==
  /\ InitializeDone /\ FirstLaunchFailed /\ MsgTimeout(launchLog[1].msg)
  /\ Len(launchLog) = 2 /\ ~launchLog[2].ok /\ launchLog[2].timeout = 60000

\* C10: a first launch failure with a message of none of the three classes
\* is thrown on by initialize() as it is: one launch call, no install, no
\* context.
C10_UnclassifiedErrorRethrown ==
  (FirstLaunchFailed /\ MsgUnclassified(launchLog[1].msg)) =>
    /\ pc = "catch"
    /\ caught = Err(attempt, "launch", 1, launchLog[1].msg)
    /\ Len(launchLog) = 1
    /\ Installs = {}
    /\ newContextCalls = 0

\* C10 witness: initialize() has thrown an unclassified launch error.
C10_Witness ==
  pc = "catch" /\ FirstLaunchFailed /\ MsgUnclassified(launchLog[1].msg)

\* cleanup() has just returned: at the start of initialize(), in the catch of
\* run(), or after the retry loop.
CleanupReturned ==
  \/ pc = "zombie"
  \/ pc \in {"initialize", "exhausted"} /\ attempt > 1
  \/ RunThrew

\* C11: cleanup() never raises, whatever the service holds and whichever
\* close rejects, and when it closes both it closes the context before the
\* browser.
C11_CleanupNeverRaisesContextFirst ==
  /\ cleanupRaised = FALSE
  /\ \A i, j \in DOMAIN cleanupCalls :
       cleanupCalls[i].op = "context.close" /\ cleanupCalls[j].op = "browser.close"
         => i < j

\* Both were closed, in order, and the browser's close rejected.
C11_Witness ==
  /\ CleanupReturned
  /\ Len(cleanupCalls) = 2
  /\ cleanupCalls[1].op = "context.close"
  /\ ~cleanupCalls[2].ok

\* C12 (as claimed): after every cleanup() the service holds neither a context
\* nor a browser, also when a close failed, and at most one launched browser
\* is ever open.
C12_CleanupResetsSession ==
  /\ (CleanupReturned => context = Null /\ browser = Null)
  /\ Cardinality(openBrowsers) <= 1

\* The card the k-th collected candidate came from.
SourceCard(k) == cardsRead[collectedFrom[k] + 1]

Collected(i) == \E k \in DOMAIN collectedFrom : collectedFrom[k] = i

InScrape == pc \in {"phase1", "phase2", "finally"}

\* C13: every collected candidate has bedroomCount <= 1 (the count its
\* card's title classifies to) and comes from a card whose text holds
\* 'Starting at $'; a card of more than one bedroom, and a card without the
\* marker, is never collected.
C13_OnlyQualifyingCollected ==
  InScrape =>
    /\ Len(collectedFrom) = Len(qualifyingFloorplans)
    /\ \A k \in DOMAIN qualifyingFloorplans :
         /\ qualifyingFloorplans[k].bedroomCount <= 1
         /\ qualifyingFloorplans[k].bedroomCount =
              extractBedroomCount(SourceCard(k).title)
         /\ includesText(SourceCard(k).text, PriceMarker)
    /\ \A i \in DOMAIN cardsRead :
         \/ extractBedroomCount(cardsRead[i].title) > 1
         \/ ~includesText(cardsRead[i].text, PriceMarker)
         => ~Collected(i - 1)

\* C13 witness: of two cards read without failure, a priced card of more
\* than one bedroom and an unpriced studio, neither was collected.
C13_Witness ==
  /\ pc = "phase2" /\ Len(cardsRead) = 2 /\ qualifyingFloorplans = <<>>
  /\ cardsRead[1].fails = "none" /\ cardsRead[2].fails = "none"
  /\ extractBedroomCount(cardsRead[1].title) > 1
  /\ includesText(cardsRead[1].text, PriceMarker)
  /\ extractBedroomCount(cardsRead[2].title) = 0
  /\ ~includesText(cardsRead[2].text, PriceMarker)

\* C14: a card whose read fails is skipped and nothing else: when phase 1
\* is over every card index 0..cardCount-1 was examined, the candidates are
\* exactly the qualifying cards, in card order, and no error is pending.
C14_CardFailureSkipsOnlyThatCard ==
  /\ pc \in {"phase1", "phase2"} => caught = NoError
  /\ pc = "phase2" =>
       /\ Len(cardsRead) = cardCount
       /\ \A i \in DOMAIN cardsRead : cardQualifies(cardsRead[i]) <=> Collected(i - 1)
       /\ \A k, l \in DOMAIN collectedFrom :
            k < l => collectedFrom[k] < collectedFrom[l]

\* C14 witness: the first card's title read failed, the second card was
\* examined and collected.
C14_Witness ==
  /\ pc = "phase2" /\ Len(cardsRead) = 2
  /\ cardsRead[1].fails = "title"
  /\ collectedFrom = << 1 >>

\* C15: no detail page is visited before every card was examined, and the
\* visits are the collected candidates, in card order, once each.
C15_TwoPhaseOrdering ==
  InScrape =>
    /\ detailVisits # <<>> => Len(cardsRead) = cardCount
    /\ Len(detailVisits) <= Len(qualifyingFloorplans)
    /\ \A k \in DOMAIN detailVisits :
         detailVisits[k].title = qualifyingFloorplans[k].title
    /\ \A k, l \in DOMAIN collectedFrom :
         k < l => collectedFrom[k] < collectedFrom[l]
    /\ (pc = "finally" /\ caught = NoError =>
          Len(detailVisits) = Len(qualifyingFloorplans))

\* C15 witness: two different floorplans were collected and both visited.
C15_Witness ==
  /\ pc = "finally" /\ caught = NoError
  /\ Len(detailVisits) = 2
  /\ detailVisits[1].title # detailVisits[2].title

\* The output holds a record with the normalised values of scraped unit i.
Returned(i) ==
  \E k \in DOMAIN apartments :
    finalKey(apartments[k]) = finalKey(normalize(scrapedUnits[i], i))

\* C16: a failed visit does not end phase 2: every qualifying floorplan is
\* visited, no error is pending, and the units of the visits that did not
\* fail are returned.
C16_FloorplanFailureDoesNotAbort ==
  /\ pc \in {"phase2", "finally"} => caught = NoError
  /\ pc = "finally" =>
       /\ Len(detailVisits) = Len(qualifyingFloorplans)
       /\ \A i \in DOMAIN scrapedUnits :
            ~detailVisits[scrapedUnits[i].visit].error => Returned(i)

\* C16 witness: the first visit failed, the second yielded a unit, which is
\* in the output.
C16_Witness ==
  /\ pc = "finally"
  /\ Len(detailVisits) = 2
  /\ detailVisits[1].error /\ ~detailVisits[2].error
  /\ \E k \in DOMAIN apartments : apartments[k].visit = 2

\* C17 (as claimed): no unit comes from a visit that raised an error.
C17_FailedFloorplanYieldsNothing ==
  /\ \A i \in DOMAIN scrapedUnits : ~detailVisits[scrapedUnits[i].visit].error
  /\ pc = "finally" =>
       \A k \in DOMAIN apartments : ~detailVisits[apartments[k].visit].error

\* C18: no two records of the output come from scraped records with the
\* same four texts.
C18_IdempotentDedup ==
  pc = "finally" =>
    \A k, l \in DOMAIN apartments :
      k # l => RawFields(scrapedUnits[apartments[k].raw])
                 # RawFields(scrapedUnits[apartments[l].raw])

\* C18 witness: two scraped records have the same four texts, and the
\* output was computed.
C18_Witness ==
  /\ pc = "finally"
  /\ \E i, j \in DOMAIN scrapedUnits :
       i < j /\ RawFields(scrapedUnits[i]) = RawFields(scrapedUnits[j])

\* The output holds a record made from a scraped record with the four
\* texts of scraped unit i.
Kept(i) ==
  \E k \in DOMAIN apartments :
    RawFields(scrapedUnits[apartments[k].raw]) = RawFields(scrapedUnits[i])

\* Scraped units i and j have the same unit number and differ in exactly
\* one of floorplan name, rent text and availability text.
DifferInOneText(i, j) ==
  LET a == RawFields(scrapedUnits[i])
      b == RawFields(scrapedUnits[j])
  IN  /\ a[2] = b[2]
      /\ Cardinality({ f \in {1, 3, 4} : a[f] # b[f] }) = 1

NormalFields(unit) ==
  << unit.floorplanName, unit.unitNumber, parseRent(unit.rent),
     parseAvailabilityDate(unit.availabilityDate) >>

C20_EmittedRecordsDistinct ==
  \A i, j \in DOMAIN scrapedUnits :
    i # j => RawFields(scrapedUnits[i]) # RawFields(scrapedUnits[j])

\* Match m of the whole-page pattern, found on the page of visit v, has its
\* record among those emitted in the run: the unit without its "#", and
\* the price and the date of the same match.
MatchEmitted(v, m) ==
  \E i \in DOMAIN scrapedUnits :
    /\ scrapedUnits[i].floorplanName = detailVisits[v].title
    /\ scrapedUnits[i].unitNumber = replace(m.unit, "#", "")
    /\ scrapedUnits[i].rent = m.price
    /\ scrapedUnits[i].availabilityDate = m.date

\* C21 (as claimed): whenever the container scan of a visit pushed nothing
\* and the page body holds units of the prefix family, each followed by a
\* price and a date, every such match has its record emitted, whatever the
\* unit number is.
C21_FallbackEmitsEveryMatch ==
  \A v \in DOMAIN detailVisits :
    detailVisits[v].fallback =>
      \A k \in DOMAIN detailVisits[v].body.matches :
        MatchEmitted(v, detailVisits[v].body.matches[k])

\* C28: the stale-process and temp-file commands are executed exactly when
\* NODE_ENV is 'production', in their order and before the first
\* chromium.launch of the attempt; a command that throws ends the block
\* (the commands after it are not executed) and its error is dropped:
\* initialize() goes on to the launch with no error pending.
C28_ZombieCleanupOnlyInProduction ==
  /\ [](pc = "launch" =>
         /\ launchLog = <<>>
         /\ caught = NoError
         /\ production <=> execLog # <<>>
         /\ Len(execLog) <= Len(ZombieCommands)
         /\ \A i \in DOMAIN execLog :
              /\ execLog[i].cmd = ZombieCommands[i]
              /\ ~execLog[i].ok => i = Len(execLog)
         /\ (production /\ \A i \in DOMAIN execLog : execLog[i].ok) =>
              Len(execLog) = Len(ZombieCommands))
  /\ [][pc = "zombie" => pc' = "launch" /\ caught' = caught]_vars

\* C28 witness: in production the second command threw, and initialize()
\* stands before the launch all the same.
C28_Witness ==
  /\ pc = "launch" /\ production
  /\ Len(execLog) = 2 /\ execLog[1].ok /\ ~execLog[2].ok

\* The availability text of a record is of the "Month Day" form: a month
\* word, blanks, a day number, and nothing else.
MonthDayText(text) ==
  LET w2 == runEnd(text, 1, UpperLetters \o LowerLetters)
      d1 == runEnd(text, w2 + 1, " ") + 1
      d2 == runEnd(text, d1, Digits)
  IN  /\ w2 >= 1 /\ d1 > w2 + 1 /\ d2 >= d1 /\ d2 = Len(text)
      /\ monthOf(substring(text, 1, w2)) # 0
      /\ parseInt(substring(text, d1, d2)) \in 1..31

\* The day a "Month Day" text names, in the current year.
MonthDayThisYear(text) ==
  LET w2 == runEnd(text, 1, UpperLetters \o LowerLetters)
      d1 == runEnd(text, w2 + 1, " ") + 1
  IN  makeDate(CurrentYear, monthOf(substring(text, 1, w2)),
               parseInt(substring(text, d1, Len(text))))

\* The availability text is of the "M/D" form: two numbers and a slash.
SlashText(text) ==
  LET a2 == runEnd(text, 1, Digits)
      b2 == runEnd(text, a2 + 2, Digits)
  IN  a2 >= 1 /\ charAt(text, a2 + 1) = "/" /\ b2 >= a2 + 2 /\ b2 = Len(text)

SlashThisYear(text) ==
  LET a2 == runEnd(text, 1, Digits)
  IN  makeDate(CurrentYear, parseInt(substring(text, 1, a2)),
               parseInt(substring(text, a2 + 2, Len(text))))

\* C30 (as claimed): in the output of a run, a record whose stored
\* availability text is of the "Month Day" form or of the "M/D" form has
\* the day the text names, in the current year (so the two forms of one
\* day give one date).
C30_StoredDateGetsCurrentYear ==
  pc = "finally" =>
    \A k \in DOMAIN apartments :
      LET text == scrapedUnits[apartments[k].raw].availabilityDate
          date == apartments[k].availabilityDate
      IN  /\ MonthDayText(text) => date = MonthDayThisYear(text)
          /\ SlashText(text) => date = SlashThisYear(text)

\* The text holds a digit.
HasDigit(text) == \E p \in 1..Len(text) : isDigit(charAt(text, p))

\* C29 (as claimed): parseRent yields a whole number for every text, 0 for
\* a text from which no number can be obtained, and 1991 for "$1,991".
C29_RentIsAlwaysWholeNumber ==
  (parseCall.fn = "parseRent" /\ parseCall.done) =>
     /\ parseCall.result \in Nat
     /\ parseCall.result # NaN
     /\ ~HasDigit(parseCall.arg) => parseCall.result = 0
     /\ parseCall.arg = "$1,991" => parseCall.result = 1991

\* The scraped units whose number no row of the store has.
AbsentFromStore ==
  LET Absent(unit) == \A x \in apartmentsTable : x.unit_number # unit.unitNumber
  IN  SelectSeq(scrapedApartments, Absent)

NewUnitCalls ==
  { k \in DOMAIN jobCalls : jobCalls[k].op = "sendNewApartmentNotification" }

\* C22: in database mode, when the job comes to the notification step the
\* new units are exactly the scraped units whose number is in no stored row
\* (the table is the one findNewUnits read); the step calls the sink exactly
\* when there is a new unit, with exactly these units; the sink is never
\* called with an empty list.  (In the worker, an updateProgress() that
\* rejects before the step ends the job without the step being taken.)
C22_NotifiesExactlyTheUnstoredUnits ==
  /\ []((jobPc = "notify" /\ ~ignoreDatabase) => newUnits = AbsentFromStore)
  /\ [](\A k \in NewUnitCalls : jobCalls[k].arg # <<>>)
  /\ [][(jobPc = "notify" /\ ~ignoreDatabase /\ jobError' # ProgressFailed) =>
          IF AbsentFromStore = <<>>
          THEN jobCalls' = jobCalls
          ELSE /\ Len(jobCalls') = Len(jobCalls) + 1
               /\ jobCalls'[Len(jobCalls')].op = "sendNewApartmentNotification"
               /\ jobCalls'[Len(jobCalls')].arg = AbsentFromStore]_vars

\* C22 witness: two units were scraped, one of them is stored at another
\* rent, and the notification sent carries the other one only.
C22_Witness ==
  /\ ~ignoreDatabase /\ jobPc \in {"upsert", "logRun"}
  /\ Len(scrapedApartments) = 2 /\ Len(newUnits) = 1
  /\ \E x \in apartmentsTable, i \in DOMAIN scrapedApartments :
       /\ x.unit_number = scrapedApartments[i].unitNumber
       /\ x.rent # scrapedApartments[i].rent
  /\ jobCalls[Len(jobCalls)].op = "sendNewApartmentNotification"
  /\ jobCalls[Len(jobCalls)].arg = newUnits
  /\ jobCalls[Len(jobCalls)].ok

\* The invocation under way (or just ended) is runOnce in database mode and
\* its run() returned no unit.
RunOnceScrapedNothing ==
  /\ jobKind = "runOnce" /\ ~ignoreDatabase
  /\ \E k \in DOMAIN jobCalls :
       jobCalls[k].op = "run" /\ jobCalls[k].ok /\ jobCalls[k].arg = <<>>

StoreWrites ==
  { k \in DOMAIN jobCalls :
      jobCalls[k].op \in {"updateApartments", "removeUnavailableUnits"} }

\* C23: when run() returns no unit to runOnce in database mode, neither
\* updateApartments nor removeUnavailableUnits is called and no step of the
\* invocation changes the table; the invocation that completes has written
\* the run log, with 0 units found, as its last call.
C23_EmptyScrapeLeavesStoreAlone ==
  /\ [](RunOnceScrapedNothing =>
          /\ StoreWrites = {}
          /\ jobOutcome.kind = "completed" =>
               LET last == jobCalls[Len(jobCalls)]
               IN  /\ last.op = "logScrapeRun" /\ last.ok
                   /\ last.arg = ScrapeLog("completed", 0, 0, ""))
  /\ [][RunOnceScrapedNothing => apartmentsTable' = apartmentsTable]_vars

\* C23 witness: the store holds rows, runOnce scraped nothing and completed.
C23_Witness ==
  /\ RunOnceScrapedNothing
  /\ jobPc = "idle" /\ jobOutcome.kind = "completed"
  /\ apartmentsTable # {}

StoreCalls ==
  { k \in DOMAIN jobCalls :
      jobCalls[k].op \in {"testConnection", "findNewUnits", "updateApartments",
                          "removeUnavailableUnits", "logScrapeRun"} }

\* C24: in an invocation of runOnce with ignoreDatabase = true no database
\* service is built and no call is made on the store, on the failure path
\* either, and no step changes the table; the notification step calls the
\* sink with all the scraped units when there is one and not at all when
\* there is none.
C24_IgnoreDatabaseNeverTouchesStore ==
  /\ []((jobKind = "runOnce" /\ ignoreDatabase) =>
          databaseService = Null /\ StoreCalls = {})
  /\ [][(jobKind = "runOnce" /\ ignoreDatabase) =>
          apartmentsTable' = apartmentsTable]_vars
  /\ [][(jobKind = "runOnce" /\ ignoreDatabase /\ jobPc = "notify") =>
          IF scrapedApartments = <<>>
          THEN jobCalls' = jobCalls
          ELSE /\ Len(jobCalls') = Len(jobCalls) + 1
               /\ jobCalls'[Len(jobCalls')].op = "sendNewApartmentNotification"
               /\ jobCalls'[Len(jobCalls')].arg = scrapedApartments]_vars

\* C24 witness: with the flag set, a unit that the store already holds was
\* scraped and notified, and the invocation completed.
C24_Witness ==
  /\ jobKind = "runOnce" /\ ignoreDatabase
  /\ jobPc = "idle" /\ jobOutcome.kind = "completed"
  /\ \E x \in apartmentsTable, i \in DOMAIN scrapedApartments :
       x = ApartmentRecord(scrapedApartments[i])
  /\ jobCalls[Len(jobCalls)].op = "sendNewApartmentNotification"
  /\ jobCalls[Len(jobCalls)].arg = scrapedApartments

ConnectionTestFailed ==
  \E k \in DOMAIN jobCalls : jobCalls[k].op = "testConnection" /\ ~jobCalls[k].ok

\* C25: once the connection test of an invocation has failed, the error the
\* job holds is 'Database connection failed', the only calls made after it
\* are the two reports of the catch block (run(), findNewUnits, the
\* new-unit notification, the upsert and the delete are never called), the
\* table is not changed, and the invocation ends as failed with that error.
C25_ConnectionFailureStopsBeforeScrape ==
  /\ [](ConnectionTestFailed =>
          /\ jobError = ConnectionFailed
          /\ jobPc \in {"catchLog", "catchNotify", "idle"}
          /\ \A k \in DOMAIN jobCalls :
               jobCalls[k].op \in {"testConnection", "logScrapeRun",
                                   "sendErrorNotification"}
          /\ jobPc = "idle" =>
               jobOutcome = [kind |-> "failed", error |-> ConnectionFailed])
  /\ [][ConnectionTestFailed => apartmentsTable' = apartmentsTable]_vars

\* C25 witness: the connection test failed and the invocation has ended,
\* having made three calls: the test and the two reports.
C25_Witness ==
  /\ ConnectionTestFailed
  /\ jobPc = "idle" /\ jobOutcome.kind = "failed"
  /\ Len(jobCalls) = 3
  /\ jobCalls[3].op = "sendErrorNotification"

\* The invocation has ended as failed, in database mode, the failure being
\* that of run() or of a later step.
FailedAfterScrapeBegan ==
  /\ jobPc = "idle" /\ jobOutcome.kind = "failed"
  /\ ~(jobKind = "runOnce" /\ ignoreDatabase)
  /\ \E k \in DOMAIN jobCalls : jobCalls[k].op = "run"

\* C26 (as claimed): when an invocation in database mode has failed at
\* run() or later, a run-log entry with status 'failed' and the error
\* message was submitted to the store and the error notification was sent
\* to the sink, whether or not one of these two calls failed.
C26_FailureReportedToBoth ==
  FailedAfterScrapeBegan =>
    /\ \E k \in DOMAIN jobCalls :
         /\ jobCalls[k].op = "logScrapeRun"
         /\ jobCalls[k].arg = ScrapeLog("failed", 0, 0, jobOutcome.error)
    /\ \E k \in DOMAIN jobCalls :
         /\ jobCalls[k].op = "sendErrorNotification"
         /\ jobCalls[k].arg = jobOutcome.error

ErrorNotificationCalls ==
  { k \in DOMAIN jobCalls : jobCalls[k].op = "sendErrorNotification" }

\* C27: a call of sendErrorNotification resolves however its post ends
\* (response OK, rejection, response not OK); a call of
\* sendNewApartmentNotification resolves only when the response is OK, and
\* otherwise throws to the job, whose catch block then holds the
\* notification's error.
C27_ErrorNotificationNeverRaises ==
  /\ [](\A k \in ErrorNotificationCalls : jobCalls[k].ok)
  /\ [](\A k \in NewUnitCalls : jobCalls[k].ok <=> jobCalls[k].transport = "ok")
  /\ [][(jobPc = "notify" /\ Len(jobCalls') > Len(jobCalls)
           /\ ~jobCalls'[Len(jobCalls')].ok) =>
          (jobPc' = "catchLog" /\ jobError' = NotificationFailed)]_vars

\* C27 witness: the new-unit notification got a response that was not OK
\* and threw; the post of the error notification was then rejected, and the
\* call resolved.
C27_Witness ==
  /\ jobPc = "idle" /\ jobOutcome.kind = "failed"
  /\ jobOutcome.error = NotificationFailed
  /\ \E k \in NewUnitCalls : jobCalls[k].transport = "notOk" /\ ~jobCalls[k].ok
  /\ \E k \in ErrorNotificationCalls :
       jobCalls[k].transport = "rejects" /\ jobCalls[k].ok

\* C35 (as claimed): the index-page strategies are tried least strict first
\* (DOM attached, full load, network idle), and each goto is given a timeout
\* strictly greater than that of the goto made before it.
C35_TimeoutsIncreaseAlongStrategies ==
  \A i \in DOMAIN gotoLog :
    /\ gotoLog[i].waitUntil = << "domcontentloaded", "load", "networkidle" >>[i]
    /\ (i > 1 => gotoLog[i].timeout > gotoLog[i - 1].timeout)

\* ---------------------------------------------------------------------
\* The body of the container loop of scrapeFloorplanDetails, applied to one
\* container alone.
\* ---------------------------------------------------------------------

UnitTokens == {"#WEST-641", "EAST-12"}
PriceTokens == {"$1,991", "$2,100"}
DateTokens == {"Available Sep 28", "10/5"}

\* Containers whose text is consistent with its tokens: a price token
\* brings the price marker with it, and a unit token written with '#'
\* brings the unit marker.
PairedContainers ==
  { c \in { Container(text, u, p, d) :
              text \in SUBSET {"#", "$"},
              u \in SeqsUpTo(UnitTokens, MaxFound),
              p \in SeqsUpTo(PriceTokens, MaxTokens),
              d \in SeqsUpTo(DateTokens, MaxTokens) } :
      /\ (c.priceMatches # <<>> => "$" \in c.text)
      /\ ((\E j \in DOMAIN c.unitMatches : c.unitMatches[j] = "#WEST-641")
            => "#" \in c.text) }

PairInit ==
  /\ ServiceIdle /\ production = FALSE
  /\ JobIdle /\ apartmentsTable = {} /\ ProcessIdle
  /\ \E c \in PairedContainers :
       parseCall = [fn |-> "containerCandidates", arg |-> c, done |-> FALSE,
                    result |-> <<>>]

\* One iteration of the loop over the containers, on the page of the
\* floorplan "Studio": the guard on the two markers, the three matches, the
\* guard on unit and price matches, and the loop over the unit matches.
PairContainer ==
  /\ parseCall.fn = "containerCandidates" /\ ~parseCall.done
  /\ parseCall' =
       [parseCall EXCEPT
          !.done = TRUE,
          !.result = IF containerListsUnits(parseCall.arg)
                     THEN containerCandidates(parseCall.arg, 1, "Studio")
                     ELSE <<>>]
  /\ UNCHANGED << scraperVars, jobVars, processVars >>

PairNext == PairContainer

PairSpec == PairInit /\ [][PairNext]_vars

\* ---------------------------------------------------------------------
\* ScrapeJobScheduler: start() and scheduleRecurringJobs(), each await a
\* step.  scheduler.repeatable is the queue's set of repeatable jobs, kept
\* in Redis from one process to the next; scheduler.repeatableJobs is the
\* list removeRecurringJobs() iterates over.
\* ---------------------------------------------------------------------

RepeatableJob(name, key) == [name |-> name, key |-> key]

\* The repeatable job queue.add() registers: its key is made of the name,
\* the job id, the time zone and the pattern, so adding it again adds
\* nothing.
RecurringScrape ==
  RepeatableJob("scrape-apartments",
                "scrape-apartments:recurring-scrape:::America/New_York:0 */2 * * *")

\* What the queue can hold when the process starts: the recurring job as an
\* earlier version scheduled it, the one of this version, and a repeatable
\* job of another name.
StoredRepeatables ==
  { RepeatableJob("scrape-apartments",
                  "scrape-apartments:recurring-scrape:::America/New_York:0 * * * *"),
    RecurringScrape,
    RepeatableJob("clean-old-jobs", "clean-old-jobs::::0 3 * * *") }

\* The orders in which getRepeatableJobs() can list the set S.
Listings(S) ==
  { q \in SeqsUpTo(S, Cardinality(S)) :
      Len(q) = Cardinality(S) /\ { q[i] : i \in DOMAIN q } = S }

\* Variant: only the job with the key of the present schedule is removed.
isRecurringScrape_ByKey(job) == job.key = RecurringScrape.key

\* if (job.name === 'scrape-apartments')
isRecurringScrape(job) == job.name = "scrape-apartments"

\* The call in progress rejects: the error leaves start() or
\* scheduleRecurringJobs().
ScheduleRejects ==
  scheduler' = [scheduler EXCEPT !.pc = "idle", !.last = "rejected",
                                 !.repeatableJobs = <<>>]

\* A call of start() or of scheduleRecurringJobs() begins, the queue
\* holding what earlier calls and earlier processes left in it.
ScheduleBegin ==
  /\ scheduler.pc = "idle"
  /\ scheduler.calls < MaxSchedules
  /\ \E entry \in {"start", "scheduleRecurringJobs"} :
       scheduler' = [scheduler EXCEPT
                       !.pc = IF entry = "start" THEN "ping" ELSE "list",
                       !.calls = @ + 1, !.last = "none"]
  /\ UNCHANGED << scraperVars, jobVars, parseCall, app >>

\* start(): await this.redis.ping()
SchedulerPing ==
  /\ scheduler.pc = "ping"
  /\ \/ scheduler' = [scheduler EXCEPT !.pc = "list"]
     \/ ScheduleRejects
  /\ UNCHANGED << scraperVars, jobVars, parseCall, app >>

\* removeRecurringJobs(): await this.queue.getRepeatableJobs()
GetRepeatableJobs ==
  /\ scheduler.pc = "list"
  /\ \/ \E q \in Listings(scheduler.repeatable) :
          scheduler' = [scheduler EXCEPT !.pc = "remove", !.repeatableJobs = q]
     \/ ScheduleRejects
  /\ UNCHANGED << scraperVars, jobVars, parseCall, app >>

\* removeRecurringJobs(), one iteration of the loop: a job of the name is
\* removed by its key.
RemoveRepeatable ==
  /\ scheduler.pc = "remove"
  /\ scheduler.repeatableJobs # <<>>
  /\ LET job == Head(scheduler.repeatableJobs)
     IN  IF isRecurringScrape(job)
         THEN \/ scheduler' =
                   [scheduler EXCEPT !.repeatable = @ \ {job},
                                     !.removed = @ + 1,
                                     !.repeatableJobs = Tail(@)]
              \/ ScheduleRejects
         ELSE scheduler' = [scheduler EXCEPT !.repeatableJobs = Tail(@)]
  /\ UNCHANGED << scraperVars, jobVars, parseCall, app >>

\* scheduleRecurringJobs(), after the removal: await this.queue.add(...)
\* with the repeat options; the call then resolves.
AddRecurring ==
  /\ scheduler.pc = "remove"
  /\ scheduler.repeatableJobs = <<>>
  /\ \/ scheduler' = [scheduler EXCEPT
                        !.repeatable = @ \cup {RecurringScrape},
                        !.pc = "idle", !.last = "resolved",
                        !.resolved = @ + 1]
     \/ ScheduleRejects
  /\ UNCHANGED << scraperVars, jobVars, parseCall, app >>

ScheduleInit ==
  /\ ServiceIdle /\ production = FALSE
  /\ JobIdle /\ apartmentsTable = {} /\ parseCall = NoCall /\ app = AppIdle
  /\ \E stored \in SUBSET StoredRepeatables :
       scheduler = [SchedulerIdle EXCEPT !.repeatable = stored]

ScheduleNext ==
  \/ ScheduleBegin
  \/ SchedulerPing
  \/ GetRepeatableJobs
  \/ RemoveRepeatable
  \/ AddRecurring

ScheduleSpec == ScheduleInit /\ [][ScheduleNext]_vars

\* ---------------------------------------------------------------------
\* ApartmentCrawlerApp: the signal handlers and the shutdowns.  A handler
\* runs up to its first await in the step that delivers the signal; every
\* await after that is a step of its own.  app.workerShutdowns and
\* app.schedulerShutdowns hold, for each call of ScrapeWorker.shutdown()
\* and of ScrapeJobScheduler.shutdown(), the await it stands at.
\* ---------------------------------------------------------------------

\* The signals the worker's constructor registers its shutdown for.
WorkerSignals == {"SIGINT", "SIGTERM"}
\* The signals setupGracefulShutdown() registers its handler for.
AppSignals == {"SIGINT", "SIGTERM", "SIGQUIT"}

\* The listeners of a signal run in the order of their registration: the
\* worker's shutdown (registered by the ScrapeWorker constructor), then the
\* application's handler.  ScrapeWorker.shutdown() calls worker.close() and
\* waits.
afterWorkerListener(a, signal) ==
  IF signal \in WorkerSignals
  THEN [a EXCEPT !.workerShutdowns = Append(@, "close")]
  ELSE a

\* The application's handler: a signal during shutdown exits with 1; the
\* first sets the flag and calls shutdown(), which calls the shutdown of
\* the worker and that of the scheduler, each running to its first await.
afterAppListener(a, signal) ==
  IF a.isShuttingDown
  THEN [a EXCEPT !.exitCode = 1]
  ELSE [a EXCEPT !.isShuttingDown = TRUE,
                 !.workerShutdowns = Append(@, "close"),
                 !.schedulerShutdowns = Append(@, "close")]

\* The process receives a signal.
Signal ==
  /\ app.exitCode = Running
  /\ Len(app.received) < MaxSignals
  /\ \E signal \in AppSignals :
       app' = afterAppListener(
                afterWorkerListener([app EXCEPT !.received = Append(@, signal)],
                                    signal),
                signal)
  /\ UNCHANGED << scraperVars, jobVars, parseCall, scheduler >>

\* A call of ScrapeWorker.shutdown() goes on: worker.close() resolves and
\* redis.disconnect() is awaited; or redis.disconnect() resolves; or one of
\* them rejects and the catch logs.  After the try, process.exit(0).
WorkerShutdownStep ==
  /\ app.exitCode = Running
  /\ \E i \in DOMAIN app.workerShutdowns :
       \/ /\ app.workerShutdowns[i] = "close"
          /\ app' = [app EXCEPT !.workerClosed = TRUE,
                                !.workerShutdowns[i] = "disconnect"]
       \/ /\ app.workerShutdowns[i] = "disconnect"
          /\ app' = [app EXCEPT !.workerRedisOpen = FALSE,
                                !.workerShutdowns[i] = "done",
                                !.exitCode = 0]
       \/ /\ app.workerShutdowns[i] \in {"close", "disconnect"}
          /\ app' = [app EXCEPT !.workerShutdowns[i] = "done", !.exitCode = 0]
  /\ UNCHANGED << scraperVars, jobVars, parseCall, scheduler >>

\* A call of ScrapeJobScheduler.shutdown() goes on: queue.close() resolves
\* and redis.disconnect() is awaited; or redis.disconnect() resolves; or one
\* of them rejects and the catch logs.  The call then resolves.
SchedulerShutdownStep ==
  /\ app.exitCode = Running
  /\ \E i \in DOMAIN app.schedulerShutdowns :
       \/ /\ app.schedulerShutdowns[i] = "close"
          /\ app' = [app EXCEPT !.queueClosed = TRUE,
                                !.schedulerShutdowns[i] = "disconnect"]
       \/ /\ app.schedulerShutdowns[i] = "disconnect"
          /\ app' = [app EXCEPT !.schedulerRedisOpen = FALSE,
                                !.schedulerShutdowns[i] = "done"]
       \/ /\ app.schedulerShutdowns[i] \in {"close", "disconnect"}
          /\ app' = [app EXCEPT !.schedulerShutdowns[i] = "done"]
  /\ UNCHANGED << scraperVars, jobVars, parseCall, scheduler >>

ShutdownInit ==
  /\ ServiceIdle /\ production = FALSE
  /\ JobIdle /\ apartmentsTable = {} /\ parseCall = NoCall
  /\ scheduler = SchedulerIdle /\ app = AppIdle

ShutdownNext ==
  \/ Signal
  \/ WorkerShutdownStep
  \/ SchedulerShutdownStep

ShutdownSpec == ShutdownInit /\ [][ShutdownNext]_vars

\* The triple the claim gives unit token j of container c: the unit number,
\* the price token and the date token.
ClaimedTriple(c, j) ==
  [unit |-> replace(c.unitMatches[j], "#", ""),
   price |-> IF j <= Len(c.priceMatches) THEN c.priceMatches[j]
             ELSE c.priceMatches[1],
   date |-> IF j <= Len(c.dateMatches) THEN c.dateMatches[j]
            ELSE IF Len(c.dateMatches) > 0 THEN c.dateMatches[1]
            ELSE "Available Now"]

\* Candidate x was formed from triple t: its key joins the three tokens to
\* the floorplan name, and it carries the unit number and the price.
FormedFrom(x, t) ==
  /\ x.key = unitKey("Studio", t.unit, t.price, t.date)
  /\ x.unitNumber = t.unit
  /\ x.rent = t.price

PairedAsClaimed(c, result) ==
  /\ Len(result) = Len(c.unitMatches)
  /\ \A j \in DOMAIN result : FormedFrom(result[j], ClaimedTriple(c, j))

PairingDone == parseCall.fn = "containerCandidates" /\ parseCall.done

\* C33 (as claimed): a container with n unit tokens and at least one price
\* token forms exactly n triples, paired by position with the first price
\* and the first date as fallbacks; a container with no price token forms
\* none.
C33_EveryContainerPaired ==
  PairingDone =>
    IF parseCall.arg.priceMatches # <<>>
    THEN PairedAsClaimed(parseCall.arg, parseCall.result)
    ELSE parseCall.result = <<>>

\* C33 (amended): the pairing is applied only to a container whose text
\* holds both '#' and '$'.  Such a container with n unit tokens and at
\* least one price token forms exactly n triples: triple j has price token
\* j, or the first price token when there are fewer than j; date token j,
\* or the first date token when there are fewer than j, or 'Available Now'
\* when there is none.  A container without a price token, or whose text
\* lacks one of the two markers, forms no triple.
C33_MarkedContainerPaired ==
  PairingDone =>
    IF /\ parseCall.arg.priceMatches # <<>>
       /\ {"#", "$"} \subseteq parseCall.arg.text
    THEN PairedAsClaimed(parseCall.arg, parseCall.result)
    ELSE parseCall.result = <<>>

\* C33 witness: two unit tokens, two price tokens and one date token; the
\* second unit got the second price and the shared date.
C33_Witness ==
  /\ PairingDone
  /\ Len(parseCall.arg.unitMatches) = 2
  /\ Len(parseCall.arg.priceMatches) = 2
  /\ Len(parseCall.arg.dateMatches) = 1
  /\ parseCall.arg.priceMatches[1] # parseCall.arg.priceMatches[2]
  /\ Len(parseCall.result) = 2
  /\ parseCall.result[2].rent = parseCall.arg.priceMatches[2]
  /\ parseCall.result[2].availabilityDate =
       replace(parseCall.arg.dateMatches[1], "Available ", "")

\* C32 (as claimed): on a visit that did not fail, the whole-page fallback
\* is executed exactly when no container held unit and price candidates; it
\* is not executed when a container held candidates that were all skipped
\* as already seen.
C32_FallbackOnlyWithoutCandidates ==
  \A v \in DOMAIN detailVisits :
    ~detailVisits[v].error =>
      (detailVisits[v].fallback <=> ~detailVisits[v].listed)

\* The slug the claim gives a title: lowercased, one leading "the " article
\* stripped, each whitespace run a hyphen, nothing outside [a-z0-9-].
ClaimedUrl(t) ==
  "https://flatsatpcm.com/floorplans/the-"
    \o keepSlugChars(hyphenateSpaces(stripLeadingThe(toLowerCase(t)))) \o "/"

\* C34 (as claimed): the detail URL of every collected floorplan is the
\* fixed prefix, the slug of its emitted title, and '/'; two collected
\* floorplans with equal titles have equal URLs.
C34_UrlIsSlugOfEmittedTitle ==
  /\ \A i \in DOMAIN qualifyingFloorplans :
       qualifyingFloorplans[i].url = ClaimedUrl(qualifyingFloorplans[i].title)
  /\ \A i, j \in DOMAIN qualifyingFloorplans :
       qualifyingFloorplans[i].title = qualifyingFloorplans[j].title =>
         qualifyingFloorplans[i].url = qualifyingFloorplans[j].url

\* The collaborator calls of the invocation after run(), by name, in order.
CollaboratorOps ==
  LET made == SelectSeq(jobCalls,
                LAMBDA c : c.op \in {"findNewUnits", "sendNewApartmentNotification",
                                     "updateApartments", "removeUnavailableUnits",
                                     "logScrapeRun"})
  IN  [i \in DOMAIN made |-> made[i].op]

\* The calls runOnce makes in database mode for a scrape result and the new
\* units found in it.
RunOnceOps(scraped, new) ==
  << "findNewUnits" >>
  \o (IF new # <<>> THEN << "sendNewApartmentNotification" >> ELSE <<>>)
  \o (IF scraped # <<>>
      THEN << "updateApartments", "removeUnavailableUnits" >> ELSE <<>>)
  \o << "logScrapeRun" >>

\* C37 (as claimed): an invocation in database mode that completed has
\* made the same collaborator calls whether it was the worker's processJob
\* or runOnce: those runOnce makes for that scrape result; in particular
\* after a scrape that returned no unit neither of them has called
\* updateApartments or removeUnavailableUnits.
C37_WorkerOrchestratesAsRunOnce ==
  (jobPc = "idle" /\ jobOutcome.kind = "completed" /\ ~ignoreDatabase) =>
    CollaboratorOps = RunOnceOps(scrapedApartments, newUnits)

\* C38 (as claimed): in database mode, a new-unit notification never
\* includes a unit that an earlier notification included and that every
\* run() since then has scraped again, whichever steps of the runs failed.
C38_NotifiedAtMostOnce ==
  [][(/\ jobPc = "notify" /\ ~ignoreDatabase
      /\ Len(jobCalls') > Len(jobCalls)
      /\ jobCalls'[Len(jobCalls')].ok)
       => \A i \in DOMAIN newUnits :
            newUnits[i].unitNumber \notin notifiedListed]_vars

\* C31: the worker never has two jobs in progress; while a job of the
\* worker is past its start, it is the only job in progress, so the run()
\* it awaits on the worker's ScraperService is the only one being executed;
\* and a job is taken only while no other is in progress.
C31_OneJobAtATime ==
  /\ [](Cardinality(activeJobs) <= 1)
  /\ []((jobKind = "processJob" /\ jobPc # "idle") => activeJobs = {jobs})
  /\ [][activeJobs' # activeJobs /\ activeJobs' # {} => activeJobs = {}]_vars

\* C31 witness: the worker's second job is at its run() after the first
\* has ended.
C31_Witness ==
  /\ jobKind = "processJob" /\ jobPc = "scrape"
  /\ jobs = 2 /\ activeJobs = {2}

\* The repeatable jobs named 'scrape-apartments' in the queue.
ScrapeRepeatables == { j \in scheduler.repeatable : j.name = "scrape-apartments" }

\* C36: when a call of start() or scheduleRecurringJobs() has resolved,
\* however many were made before it and whatever the queue held, exactly
\* one repeatable 'scrape-apartments' job exists, the one just added;
\* once a call has resolved there are never two; and no repeatable job of
\* another name is ever removed.
C36_SchedulingIsIdempotent ==
  /\ []((scheduler.pc = "idle" /\ scheduler.last = "resolved") =>
          ScrapeRepeatables = {RecurringScrape})
  /\ [](scheduler.resolved >= 1 => Cardinality(ScrapeRepeatables) <= 1)
  /\ [][scheduler.repeatable \ ScrapeRepeatables
          \subseteq scheduler'.repeatable]_vars

\* C36 witness: two calls have resolved one after another; the first found
\* two jobs of the name left by earlier processes, the second the job the
\* first had added, and one job of the name exists.
C36_Witness ==
  /\ scheduler.pc = "idle" /\ scheduler.last = "resolved"
  /\ scheduler.resolved = 2 /\ scheduler.removed = 3
  /\ Cardinality(ScrapeRepeatables) = 1

\* Both components have completed their shutdown.
ShutdownsCompleted ==
  /\ app.workerClosed /\ ~app.workerRedisOpen
  /\ app.queueClosed /\ ~app.schedulerRedisOpen

\* C39 (as claimed): after a first SIGINT or SIGTERM, the process exits
\* with 0 only when the worker is closed, the queue is closed and both
\* Redis connections are disconnected; until a second signal, the shutdown
\* of the worker and that of the scheduler have each been called at most
\* once; and a second signal during shutdown exits with 1.
C39_ExitsAfterBothShutdownsOnce ==
  (app.received # <<>> /\ app.received[1] \in WorkerSignals) =>
    /\ (app.exitCode = 0 => ShutdownsCompleted)
    /\ (Len(app.received) = 1 =>
          Len(app.workerShutdowns) <= 1 /\ Len(app.schedulerShutdowns) <= 1)
    /\ (Len(app.received) >= 2 => app.exitCode = 1)

====
